---- MODULE Spec2Model ----
(***************************************************************************)
(* A model of mlLib's Timeline Data Format reader (src/tdfTools.py) and    *)
(* of the partition driver of src/mlEngine.py.                             *)
(*                                                                         *)
(* The module holds several specifications over one set of variables:      *)
(*   SpecCat      - ComputeOutcomeCategory applied to bounded inputs       *)
(*   SpecScan     - a file scanned partition by partition, then as a whole *)
(*   SpecRead     - one GotoNextPatientInPartition call                    *)
(*   SpecTimeline - a record compiled into a timeline, then one            *)
(*                  GetDataFromCurrentWindow call                          *)
(*   SpecCompile  - a record of admissions compiled into a timeline        *)
(*   SpecFilter   - GetDataFromCurrentWindow with required properties      *)
(*   SpecWindow   - SetFirstDataWindow and SetNextDataWindow               *)
(*   SpecUnknown  - GetDataFromCurrentWindow with names not in the         *)
(*                  registry                                               *)
(*   SpecDamaged  - a scan over files with records that are not            *)
(*                  well-formed                                            *)
(*   SpecStamp    - records with time stamps that do not parse             *)
(*   SpecRerun    - the reverse pass, or the compilation, run twice        *)
(*   SpecRelation - GetDataFromCurrentWindow with one required property    *)
(*   SpecJob      - MLJob.GetFilterProperties applied to a filter string   *)
(*   SpecLabs     - records of measurement entries with values in and out  *)
(*                  of the bounds of the registry                          *)
(*   SpecDerived  - records of measurement entries that hold some of the   *)
(*                  inputs of the derived values                           *)
(*   SpecFold     - the forward pass over events, measurements, diagnoses  *)
(*                  and outcomes at equal and different times              *)
(*   SpecMeds     - records of medication orders                           *)
(*   SpecPast     - GetDataFromCurrentWindow with a target of an earlier   *)
(*                  day                                                    *)
(*   SpecOutcome  - records with outcome entries among their measurement   *)
(*                  entries                                                *)
(*   SpecRange    - windows over admission and discharge events in every   *)
(*                  order                                                  *)
(*   SpecAny      - GetDataFromCurrentWindow for the targets that stand    *)
(*                  for an event                                           *)
(* Each specification keeps the variables it does not use at their         *)
(* initial value.                                                          *)
(***************************************************************************)
EXTENDS Integers, Sequences, FiniteSets, TLC

VARIABLES
    catCurrentDate,   \* ComputeOutcomeCategory: argument currentDate
    catOutcomeDate,   \* ComputeOutcomeCategory: argument outcomeDate
    catResult,        \* ComputeOutcomeCategory: <<>> before the call, <<category>> after it
    file,             \* the TDF file: a sequence of lines [kind, indent]
    partitionSize,    \* MLEngine_TestNeuralNet: argument partitionSize
    currentPartitionStart,  \* MLEngine_TestNeuralNet: start of the partition being scanned
    currentPartitionStop,   \* MLEngine_TestNeuralNet: stop of the partition being scanned
    filePos,          \* fileHandle.tell()
    fFoundPatient,    \* last fFoundPatient returned to the partition loop
    fEOF,             \* last fEOF returned to the partition loop
    claimed,          \* records returned by the partition scans: <<partition start, partition stop, open line>>
    wholeClaimed,     \* records returned by the scan of one partition spanning the file: open lines
    scanPc,           \* position of the scanning driver
    lastRead,         \* <<>>, or <<result>> of the GotoNextPatientInPartition call of SpecRead
    CurrentIsMale,    \* TDFFileReader.CurrentIsMale of the current patient
    CurrentWtInKg,    \* TDFFileReader.CurrentWtInKg of the current patient
    currentPatientNode,  \* the children of the current <Patient> node, in document order
    CompiledTimeline, \* TDFFileReader.CompiledTimeline: the steps; data is an index into dicts
    dicts,            \* the dict objects allocated by CompilePatientTimelineImpl
    LatestLabsFromCurrentOrEarlierTimes,  \* index into dicts of the dict the attribute refers to
    TimesOfFutureEvents,
    latestTimeLineEntryTime,  \* <<latestTimeLineEntryTimeDays, ...Hours, ...Mins>>
    BaselineGFR,
    BaselineCr,
    BaselineMELD,
    DateOfLatestCKD5,
    DailyMeds,
    NewMedsForCurrentDay,
    NewMedHoursForCurrentDay,
    CurrentAdmitDay,
    CurrentLengthOfStay,
    currentNode,      \* CompilePatientTimelineImpl: index of currentNode in currentPatientNode
    tlPc,             \* position in ParseCurrentPatientImpl and its caller
    startTimeLineIDInCurrentWindow,
    lastTimeLineIDInCurrentWindow,
    fetchArgs,        \* the arguments of the GetDataFromCurrentWindow call
    fetchResult,      \* <<>>, or <<result>> of the GetDataFromCurrentWindow call
    WindowStartEventClass,
    WindowStopEventClass,
    startNodeInCurrentWindow,  \* index in currentPatientNode, 0 for None
    lastNodeInCurrentWindow,   \* index in currentPatientNode, 0 for None
    windowCall,       \* the last window call made: "none", "first" or "next"
    windowFound,      \* the value that call returned
    rerun,            \* "none", or what was run again: "reverse" or "compile"
    firstRunFutures,  \* <<>>, or <<the Future_ values the first run left>>
    ValueFilter,      \* MLJob: the ValueFilter string of the request, a sequence of characters
    filterProperties  \* <<>>, or <<result>> of the GetFilterProperties call

catVars == <<catCurrentDate, catOutcomeDate, catResult>>

scanVars == <<file, partitionSize, currentPartitionStart, currentPartitionStop, filePos,
              fFoundPatient, fEOF, claimed, wholeClaimed, scanPc, lastRead>>

tlVars == <<CurrentIsMale, CurrentWtInKg, currentPatientNode, CompiledTimeline, dicts,
            LatestLabsFromCurrentOrEarlierTimes, TimesOfFutureEvents,
            latestTimeLineEntryTime, BaselineGFR, BaselineCr, BaselineMELD,
            DateOfLatestCKD5, DailyMeds, NewMedsForCurrentDay, NewMedHoursForCurrentDay, CurrentAdmitDay,
            CurrentLengthOfStay, currentNode, tlPc, startTimeLineIDInCurrentWindow,
            lastTimeLineIDInCurrentWindow, fetchArgs, fetchResult,
            WindowStartEventClass, WindowStopEventClass, startNodeInCurrentWindow,
            lastNodeInCurrentWindow, windowCall, windowFound, rerun,
            firstRunFutures>>

runVars == <<rerun, firstRunFutures>>

winVars == <<WindowStartEventClass, WindowStopEventClass, startNodeInCurrentWindow,
             lastNodeInCurrentWindow, windowCall, windowFound>>

jobVars == <<ValueFilter, filterProperties>>

vars == <<catVars, scanVars, tlVars, jobVars>>

(***************************************************************************)
(* Program constants (src/tdfTools.py 661-676)                             *)
(***************************************************************************)
TDF_FUTURE_EVENT_NOW_OR_PAST == 0
TDF_FUTURE_EVENT_IN_1_DAY == 1
TDF_FUTURE_EVENT_IN_3_DAYS == 2
TDF_FUTURE_EVENT_IN_7_DAYS == 3
TDF_FUTURE_EVENT_IN_14_DAYS == 4
TDF_FUTURE_EVENT_IN_30_DAYS == 5
TDF_FUTURE_EVENT_IN_90_DAYS == 6
TDF_FUTURE_EVENT_IN_180_DAYS == 7
TDF_FUTURE_EVENT_IN_365_DAYS == 8
TDF_FUTURE_EVENT_IN_730_DAYS == 9
TDF_FUTURE_EVENT_IN_1095_DAYS == 10
TDF_FUTURE_EVENT_IN_1825_DAYS == 11
TDF_FUTURE_EVENT_IN_3650_DAYS == 12
TDF_FUTURE_EVENT_NOT_IN_10YRS == 13
TDF_NUM_CATEGORIES_IN_FUTURE_VAL == 14

(***************************************************************************)
(* Bounds of the category specification                                    *)
(***************************************************************************)
MaxCurrentDay == 50
MaxOutcomeDay == 3710

(***************************************************************************)
(* ComputeOutcomeCategory (src/tdfTools.py 4273-4333)                      *)
(***************************************************************************)
ComputeOutcomeCategoryShifted(currentDate, outcomeDate) ==
    LET daysUntilOutcome == outcomeDate - currentDate IN
    IF outcomeDate < 0 THEN TDF_FUTURE_EVENT_NOT_IN_10YRS
    ELSE IF daysUntilOutcome <= 0 THEN TDF_FUTURE_EVENT_NOW_OR_PAST
    ELSE IF daysUntilOutcome <= 1 THEN TDF_FUTURE_EVENT_IN_1_DAY
    ELSE IF daysUntilOutcome <= 3 THEN TDF_FUTURE_EVENT_IN_3_DAYS
    ELSE IF daysUntilOutcome <= 7 THEN TDF_FUTURE_EVENT_IN_7_DAYS
    ELSE IF daysUntilOutcome <= 14 THEN TDF_FUTURE_EVENT_IN_14_DAYS
    ELSE IF daysUntilOutcome <= 30 THEN TDF_FUTURE_EVENT_IN_30_DAYS
    ELSE IF daysUntilOutcome <= 90 THEN TDF_FUTURE_EVENT_IN_90_DAYS
    ELSE IF daysUntilOutcome < 180 THEN TDF_FUTURE_EVENT_IN_180_DAYS
    ELSE IF daysUntilOutcome <= 365 THEN TDF_FUTURE_EVENT_IN_365_DAYS
    ELSE IF daysUntilOutcome <= 730 THEN TDF_FUTURE_EVENT_IN_730_DAYS
    ELSE IF daysUntilOutcome <= 1095 THEN TDF_FUTURE_EVENT_IN_1095_DAYS
    ELSE IF daysUntilOutcome <= 1825 THEN TDF_FUTURE_EVENT_IN_1825_DAYS
    ELSE IF daysUntilOutcome <= 3650 THEN TDF_FUTURE_EVENT_IN_3650_DAYS
    ELSE TDF_FUTURE_EVENT_NOT_IN_10YRS

ComputeOutcomeCategoryNoUnknown(currentDate, outcomeDate) ==
    LET daysUntilOutcome == outcomeDate - currentDate IN
    IF daysUntilOutcome <= 0 THEN TDF_FUTURE_EVENT_NOW_OR_PAST
    ELSE IF daysUntilOutcome <= 1 THEN TDF_FUTURE_EVENT_IN_1_DAY
    ELSE IF daysUntilOutcome <= 3 THEN TDF_FUTURE_EVENT_IN_3_DAYS
    ELSE IF daysUntilOutcome <= 7 THEN TDF_FUTURE_EVENT_IN_7_DAYS
    ELSE IF daysUntilOutcome <= 14 THEN TDF_FUTURE_EVENT_IN_14_DAYS
    ELSE IF daysUntilOutcome <= 30 THEN TDF_FUTURE_EVENT_IN_30_DAYS
    ELSE IF daysUntilOutcome <= 90 THEN TDF_FUTURE_EVENT_IN_90_DAYS
    ELSE IF daysUntilOutcome <= 180 THEN TDF_FUTURE_EVENT_IN_180_DAYS
    ELSE IF daysUntilOutcome <= 365 THEN TDF_FUTURE_EVENT_IN_365_DAYS
    ELSE IF daysUntilOutcome <= 730 THEN TDF_FUTURE_EVENT_IN_730_DAYS
    ELSE IF daysUntilOutcome <= 1095 THEN TDF_FUTURE_EVENT_IN_1095_DAYS
    ELSE IF daysUntilOutcome <= 1825 THEN TDF_FUTURE_EVENT_IN_1825_DAYS
    ELSE IF daysUntilOutcome <= 3650 THEN TDF_FUTURE_EVENT_IN_3650_DAYS
    ELSE TDF_FUTURE_EVENT_NOT_IN_10YRS

ComputeOutcomeCategory(currentDate, outcomeDate) ==
    LET daysUntilOutcome == outcomeDate - currentDate IN
    IF outcomeDate < 0 THEN TDF_FUTURE_EVENT_NOT_IN_10YRS
    ELSE IF daysUntilOutcome <= 0 THEN TDF_FUTURE_EVENT_NOW_OR_PAST
    ELSE IF daysUntilOutcome <= 1 THEN TDF_FUTURE_EVENT_IN_1_DAY
    ELSE IF daysUntilOutcome <= 3 THEN TDF_FUTURE_EVENT_IN_3_DAYS
    ELSE IF daysUntilOutcome <= 7 THEN TDF_FUTURE_EVENT_IN_7_DAYS
    ELSE IF daysUntilOutcome <= 14 THEN TDF_FUTURE_EVENT_IN_14_DAYS
    ELSE IF daysUntilOutcome <= 30 THEN TDF_FUTURE_EVENT_IN_30_DAYS
    ELSE IF daysUntilOutcome <= 90 THEN TDF_FUTURE_EVENT_IN_90_DAYS
    ELSE IF daysUntilOutcome <= 180 THEN TDF_FUTURE_EVENT_IN_180_DAYS
    ELSE IF daysUntilOutcome <= 365 THEN TDF_FUTURE_EVENT_IN_365_DAYS
    ELSE IF daysUntilOutcome <= 730 THEN TDF_FUTURE_EVENT_IN_730_DAYS
    ELSE IF daysUntilOutcome <= 1095 THEN TDF_FUTURE_EVENT_IN_1095_DAYS
    ELSE IF daysUntilOutcome <= 1825 THEN TDF_FUTURE_EVENT_IN_1825_DAYS
    ELSE IF daysUntilOutcome <= 3650 THEN TDF_FUTURE_EVENT_IN_3650_DAYS
    ELSE TDF_FUTURE_EVENT_NOT_IN_10YRS

(***************************************************************************)
(* SpecCat: the reverse pass calls ComputeOutcomeCategory with the day of  *)
(* the step being visited and the day of the next tracked occurrence, or   *)
(* -1 when no occurrence is tracked (src/tdfTools.py 4100-4142).           *)
(***************************************************************************)
CatIdle ==
    /\ catCurrentDate = 0
    /\ catOutcomeDate = 0
    /\ catResult = <<>>

ScanIdle ==
    /\ file = <<>>
    /\ partitionSize = 0
    /\ currentPartitionStart = 0
    /\ currentPartitionStop = 0
    /\ filePos = 0
    /\ fFoundPatient = FALSE
    /\ fEOF = FALSE
    /\ claimed = <<>>
    /\ wholeClaimed = <<>>
    /\ scanPc = "idle"
    /\ lastRead = <<>>

TimelineIdle ==
    /\ CurrentIsMale = 0
    /\ CurrentWtInKg = -1
    /\ currentPatientNode = <<>>
    /\ CompiledTimeline = <<>>
    /\ dicts = <<>>
    /\ LatestLabsFromCurrentOrEarlierTimes = 0
    /\ TimesOfFutureEvents = <<>>
    /\ latestTimeLineEntryTime = <<-1, -1, -1>>
    /\ BaselineGFR = -1
    /\ BaselineCr = -1
    /\ BaselineMELD = -1
    /\ DateOfLatestCKD5 = -1
    /\ DailyMeds = <<>>
    /\ NewMedsForCurrentDay = <<>>
    /\ NewMedHoursForCurrentDay = <<>>
    /\ CurrentAdmitDay = -1
    /\ CurrentLengthOfStay = -1
    /\ currentNode = 0
    /\ tlPc = "idle"
    /\ startTimeLineIDInCurrentWindow = -1
    /\ lastTimeLineIDInCurrentWindow = -1
    /\ fetchArgs = <<>>
    /\ fetchResult = <<>>
    /\ WindowStartEventClass = "any"
    /\ WindowStopEventClass = "any"
    /\ startNodeInCurrentWindow = 0
    /\ lastNodeInCurrentWindow = 0
    /\ windowCall = "none"
    /\ windowFound = FALSE
    /\ rerun = "none"
    /\ firstRunFutures = <<>>

JobIdle ==
    /\ ValueFilter = <<>>
    /\ filterProperties = <<>>

CatInit ==
    /\ catCurrentDate \in 0..MaxCurrentDay
    /\ catOutcomeDate \in -1..MaxOutcomeDay
    /\ catResult = <<>>
    /\ ScanIdle
    /\ TimelineIdle
    /\ JobIdle

CatCompute ==
    /\ catResult = <<>>
    /\ catResult' = <<ComputeOutcomeCategory(catCurrentDate, catOutcomeDate)>>
    /\ UNCHANGED <<catCurrentDate, catOutcomeDate>>
    /\ UNCHANGED scanVars
    /\ UNCHANGED tlVars
    /\ UNCHANGED jobVars

CatNext == CatCompute

SpecCat == CatInit /\ [][CatNext]_vars

(***************************************************************************)
(* C6: the category is decided by the gap g = target_day - current_day     *)
(* through the threshold table of the specification, and is 13 when no     *)
(* occurrence is tracked.                                                  *)
(***************************************************************************)
CatThresholds == <<0, 1, 3, 7, 14, 30, 90, 180, 365, 730, 1095, 1825, 3650>>

CatOfGap(g) ==
    LET hit == {i \in 1..Len(CatThresholds) : g <= CatThresholds[i]} IN
    IF hit = {} THEN 13
    ELSE (CHOOSE i \in hit : \A j \in hit : i <= j) - 1

C6_CategoryTable ==
    catResult # <<>> =>
        /\ catResult[1] \in 0..(TDF_NUM_CATEGORIES_IN_FUTURE_VAL - 1)
        /\ catOutcomeDate < 0 => catResult[1] = 13
        /\ catOutcomeDate >= 0 => catResult[1] = CatOfGap(catOutcomeDate - catCurrentDate)

C6_Witness ==
    /\ catResult = <<7>>
    /\ catOutcomeDate - catCurrentDate = 180

(***************************************************************************)
(* C7 as stated: with current_day = 50, target_day = 52 gives category 2,  *)
(* target_day = 200 gives category 8, and no tracked occurrence gives 13.  *)
(***************************************************************************)
C7_AsStated ==
    (catResult # <<>> /\ catCurrentDate = 50) =>
        /\ catOutcomeDate = 52 => catResult[1] = 2
        /\ catOutcomeDate = 200 => catResult[1] = 8
        /\ catOutcomeDate = -1 => catResult[1] = 13

(***************************************************************************)
(* C7 amended: with current_day = 50, target_day = 52 gives category 2,    *)
(* target_day = 200 (a gap of 150 days, within 180) gives category 7, and  *)
(* no tracked occurrence gives 13.                                         *)
(***************************************************************************)
C7_Amended ==
    (catResult # <<>> /\ catCurrentDate = 50) =>
        /\ catOutcomeDate = 52 => catResult[1] = 2
        /\ catOutcomeDate = 200 => catResult[1] = 7
        /\ catOutcomeDate = -1 => catResult[1] = 13

C7_Witness ==
    /\ catCurrentDate = 50
    /\ catOutcomeDate = 200
    /\ catResult = <<7>>

(***************************************************************************)
(* The TDF file as the scanner sees it (src/tdfTools.py 1121-1201 writes   *)
(* it, 1826-1913 reads it).  A line is [kind, indent, start]:              *)
(*   "head"  a line of the file header, up to </Head>                      *)
(*   "plist" the <PatientList> line                                        *)
(*   "open"  a <Patient ...> line, the record-open marker                  *)
(*   "body"  a line inside a record                                        *)
(*   "damaged" a line inside a record that leaves an element unclosed      *)
(*   "close" the </Patient> line                                           *)
(*   "other" a blank line, </PatientList> or </TDF>                        *)
(* indent is the number of whitespace bytes before the first character,    *)
(* start the byte offset of the line in the file.                          *)
(* Every line holds LineBytes bytes (newline included) after its indent.   *)
(***************************************************************************)
MaxHeadLines == 2
MaxRecords == 2
MaxIndent == 1
MaxPartitionSize == 12
LineBytes == 2

Line(k, n) == [kind |-> k, indent |-> n]

HeaderLines(n) == [i \in 1..n |-> Line("head", 0)] \o <<Line("plist", 0)>>

PatientLines(n) == <<Line("other", 0), Line("open", n), Line("body", 0), Line("close", 0)>>

RECURSIVE PatientListLines(_)
PatientListLines(indents) ==
    IF indents = <<>> THEN <<>>
    ELSE PatientLines(Head(indents)) \o PatientListLines(Tail(indents))

FooterLines == <<Line("other", 0)>>

\* the lines with the byte offset at which each starts
RECURSIVE AtOffsets(_, _)
AtOffsets(lines, offset) ==
    IF lines = <<>> THEN <<>>
    ELSE <<[kind |-> Head(lines).kind, indent |-> Head(lines).indent, start |-> offset]>>
         \o AtOffsets(Tail(lines), offset + Head(lines).indent + LineBytes)

TDFFiles ==
    { AtOffsets(HeaderLines(h) \o PatientListLines(ind) \o FooterLines, 0) :
        h \in 1..MaxHeadLines,
        ind \in UNION { [1..n -> 0..MaxIndent] : n \in 0..MaxRecords } }

NumBytes(i) == file[i].indent + LineBytes

LineStart(i) == file[i].start

LineEnd(i) == LineStart(i) + NumBytes(i)

FileSize == IF file = <<>> THEN 0 ELSE LineEnd(Len(file))

\* offset of the first character of line i: where a record's open marker starts
MarkerOffset(i) == LineStart(i) + file[i].indent

\* the line that holds byte pos (pos < FileSize)
LineAt(pos) == CHOOSE i \in 1..Len(file) : LineStart(i) <= pos /\ pos < LineEnd(i)

\* readline() at pos followed by lstrip/rstrip: the whole token of the line when
\* only whitespace was skipped by the seek, a fragment otherwise
TokenOfLine(i, pos) == IF pos <= MarkerOffset(i) THEN file[i].kind ELSE "fragment"

lineTokenText(pos) == TokenOfLine(LineAt(pos), pos)

\* lineTokenText.startswith("<patient")
StartsWithPatient(token) == token \in {"open", "plist"}

ReadResult(found, eof, pos, first) ==
    [found |-> found, eof |-> eof, pos |-> pos, first |-> first, exit |-> FALSE]

(***************************************************************************)
(* ReadNextPatientXMLStrImpl (src/tdfTools.py 1826-1913): the loop, with   *)
(* fStartedPatientSection and the line at which currentPatientNodeStr      *)
(* begins (0: empty).                                                      *)
(***************************************************************************)
RECURSIVE ReadLoopStopInside(_, _, _, _)
ReadLoopStopInside(pos, stopPartition, fStartedPatientSection, first) ==
    IF stopPartition > 0 /\ pos >= stopPartition
    THEN ReadResult(FALSE, FALSE, pos, 0)
    ELSE IF pos >= FileSize
    THEN ReadResult(FALSE, TRUE, pos, first)
    ELSE LET line == LineAt(pos)
             token == TokenOfLine(line, pos)
             started == fStartedPatientSection \/ StartsWithPatient(token)
             begin == IF ~fStartedPatientSection /\ started THEN line ELSE first
             next == LineEnd(line)
         IN  IF started /\ token = "close"
             THEN ReadResult(TRUE, FALSE, next, begin)
             ELSE ReadLoopStopInside(next, stopPartition, started, begin)

RECURSIVE ReadLoop(_, _, _, _)
ReadLoop(pos, stopPartition, fStartedPatientSection, first) ==
    IF stopPartition > 0 /\ ~fStartedPatientSection /\ pos >= stopPartition
    THEN ReadResult(FALSE, FALSE, pos, 0)
    ELSE IF pos >= FileSize
    THEN ReadResult(FALSE, TRUE, pos, first)
    ELSE LET line == LineAt(pos)
             token == TokenOfLine(line, pos)
             started == fStartedPatientSection \/ StartsWithPatient(token)
             begin == IF ~fStartedPatientSection /\ started THEN line ELSE first
             next == LineEnd(line)
         IN  IF started /\ token = "close"
             THEN ReadResult(TRUE, FALSE, next, begin)
             ELSE ReadLoop(next, stopPartition, started, begin)

ReadNextPatientXMLStrImplStopInside(pos, stopPartition) ==
    ReadLoopStopInside(pos, stopPartition, FALSE, 0)

ReadNextPatientXMLStrImpl(pos, stopPartition) ==
    ReadLoop(pos, stopPartition, FALSE, 0)

\* ParseCurrentPatientImpl (src/tdfTools.py 1929-1979): parseString accepts the
\* text of one well-formed <Patient> element; text that begins at <PatientList>
\* or holds an unclosed element is not a document, and the handler of the
\* ExpatError calls sys.exit(0)
ParseCurrentPatientImpl(r) ==
    IF /\ file[r.first].kind = "open"
       /\ \A i \in r.first..Len(file) : LineEnd(i) <= r.pos => file[i].kind # "damaged"
    THEN r
    ELSE [r EXCEPT !.found = FALSE, !.exit = TRUE]

\* GotoNextPatientInPartition (src/tdfTools.py 1794-1805)
GotoNextPatientInPartition(pos, stopPartition) ==
    LET r == ReadNextPatientXMLStrImpl(pos, stopPartition) IN
    IF ~r.found \/ r.eof THEN r ELSE ParseCurrentPatientImpl(r)

\* GotoNextPatient (src/tdfTools.py 1721-1729): one boolean is returned
GotoNextPatient(pos) ==
    LET r == ReadNextPatientXMLStrImpl(pos, -1) IN
    IF ~r.found \/ r.eof THEN [r EXCEPT !.found = FALSE, !.eof = FALSE]
    ELSE ParseCurrentPatientImpl(r)

\* GotoFirstPatient (src/tdfTools.py 1659-1704): seek(0), skip the lines up to
\* <PatientList>, then GotoNextPatient
RECURSIVE SkipToPatientList(_)
SkipToPatientList(pos) ==
    IF pos >= FileSize THEN -1
    ELSE IF lineTokenText(pos) = "plist" THEN LineEnd(LineAt(pos))
    ELSE SkipToPatientList(LineEnd(LineAt(pos)))

GotoFirstPatient ==
    LET start == SkipToPatientList(0) IN
    IF start < 0 THEN ReadResult(FALSE, FALSE, FileSize, 0)
    ELSE GotoNextPatient(start)

\* GotoFirstPatientInPartition (src/tdfTools.py 1749-1774)
GotoFirstPatientInPartition(startPartition, stopPartition) ==
    IF startPartition = 0
    THEN LET r == GotoFirstPatient IN [r EXCEPT !.eof = ~r.found /\ ~r.exit]
    ELSE GotoNextPatientInPartition(startPartition, stopPartition)

(***************************************************************************)
(* SpecScan: MLEngine_TestNeuralNet (src/mlEngine.py 3250-3296) tiles the  *)
(* file with partitions of partitionSize bytes until a partition reports   *)
(* fEOF; each partition is scanned by the loop of                          *)
(* MLEngine_TestOneFilePartitionImpl (src/mlEngine.py 2684-2704) with a    *)
(* reader of its own.  The same file is then scanned as one partition      *)
(* [0, FileSize).                                                          *)
(***************************************************************************)
ScanInit ==
    /\ CatIdle
    /\ TimelineIdle
    /\ JobIdle
    /\ file \in TDFFiles
    /\ partitionSize \in 1..MaxPartitionSize
    /\ currentPartitionStart = 0
    /\ currentPartitionStop = partitionSize
    /\ filePos = 0
    /\ fFoundPatient = FALSE
    /\ fEOF = FALSE
    /\ claimed = <<>>
    /\ wholeClaimed = <<>>
    /\ scanPc = "first"
    /\ lastRead = <<>>

\* the reader's answer reaches the partition loop; sys.exit(0) ends the process
Returned(r, pcNext) ==
    /\ filePos' = r.pos
    /\ fFoundPatient' = r.found
    /\ fEOF' = r.eof
    /\ scanPc' = IF r.exit THEN "exit" ELSE pcNext

PartitionFirst ==
    /\ scanPc = "first"
    /\ LET r == GotoFirstPatientInPartition(currentPartitionStart, currentPartitionStop) IN
        /\ Returned(r, "loop")
        /\ claimed' = IF r.found
                      THEN Append(claimed, <<currentPartitionStart, currentPartitionStop, r.first>>)
                      ELSE claimed
    /\ UNCHANGED <<file, partitionSize, currentPartitionStart, currentPartitionStop,
                   wholeClaimed, lastRead>>
    /\ UNCHANGED <<catVars, jobVars>>
    /\ UNCHANGED tlVars

PartitionNext ==
    /\ scanPc = "loop"
    /\ ~fEOF /\ fFoundPatient
    /\ LET r == GotoNextPatientInPartition(filePos, currentPartitionStop) IN
        /\ Returned(r, "loop")
        /\ claimed' = IF r.found
                      THEN Append(claimed, <<currentPartitionStart, currentPartitionStop, r.first>>)
                      ELSE claimed
    /\ UNCHANGED <<file, partitionSize, currentPartitionStart, currentPartitionStop,
                   wholeClaimed, lastRead>>
    /\ UNCHANGED <<catVars, jobVars>>
    /\ UNCHANGED tlVars

\* the partition loop ended and the driver's loop looks at fEOF
PartitionDone ==
    /\ scanPc = "loop"
    /\ fEOF \/ ~fFoundPatient
    /\ IF fEOF
       THEN /\ scanPc' = "wholeFirst"
            /\ UNCHANGED <<currentPartitionStart, currentPartitionStop>>
       ELSE /\ scanPc' = "first"
            /\ currentPartitionStart' = currentPartitionStop
            /\ currentPartitionStop' = currentPartitionStop + partitionSize
    /\ UNCHANGED <<file, partitionSize, filePos, fFoundPatient, fEOF, claimed,
                   wholeClaimed, lastRead>>
    /\ UNCHANGED <<catVars, jobVars>>
    /\ UNCHANGED tlVars

WholeFirst ==
    /\ scanPc = "wholeFirst"
    /\ LET r == GotoFirstPatientInPartition(0, FileSize) IN
        /\ Returned(r, "wholeLoop")
        /\ wholeClaimed' = IF r.found THEN Append(wholeClaimed, r.first) ELSE wholeClaimed
    /\ UNCHANGED <<file, partitionSize, currentPartitionStart, currentPartitionStop,
                   claimed, lastRead>>
    /\ UNCHANGED <<catVars, jobVars>>
    /\ UNCHANGED tlVars

WholeNext ==
    /\ scanPc = "wholeLoop"
    /\ ~fEOF /\ fFoundPatient
    /\ LET r == GotoNextPatientInPartition(filePos, FileSize) IN
        /\ Returned(r, "wholeLoop")
        /\ wholeClaimed' = IF r.found THEN Append(wholeClaimed, r.first) ELSE wholeClaimed
    /\ UNCHANGED <<file, partitionSize, currentPartitionStart, currentPartitionStop,
                   claimed, lastRead>>
    /\ UNCHANGED <<catVars, jobVars>>
    /\ UNCHANGED tlVars

WholeDone ==
    /\ scanPc = "wholeLoop"
    /\ fEOF \/ ~fFoundPatient
    /\ scanPc' = "done"
    /\ UNCHANGED <<file, partitionSize, currentPartitionStart, currentPartitionStop, filePos,
                   fFoundPatient, fEOF, claimed, wholeClaimed, lastRead>>
    /\ UNCHANGED <<catVars, jobVars>>
    /\ UNCHANGED tlVars

ScanNext ==
    \/ PartitionFirst
    \/ PartitionNext
    \/ PartitionDone
    \/ WholeFirst
    \/ WholeNext
    \/ WholeDone

SpecScan == ScanInit /\ [][ScanNext]_vars

(***************************************************************************)
(* SpecRead: one call GotoFirstPatientInPartition(start, stop) with        *)
(* start > 0, which seeks to start and calls GotoNextPatientInPartition,   *)
(* for every file, start and positive stop within the bounds.              *)
(***************************************************************************)
ReadInit ==
    /\ CatIdle
    /\ TimelineIdle
    /\ JobIdle
    /\ file \in TDFFiles
    /\ partitionSize = 0
    /\ currentPartitionStart \in 1..FileSize
    /\ currentPartitionStop \in 1..(FileSize + 1)
    /\ filePos = 0
    /\ fFoundPatient = FALSE
    /\ fEOF = FALSE
    /\ claimed = <<>>
    /\ wholeClaimed = <<>>
    /\ scanPc = "call"
    /\ lastRead = <<>>

ReadCall ==
    /\ scanPc = "call"
    /\ LET r == GotoFirstPatientInPartition(currentPartitionStart, currentPartitionStop) IN
        /\ Returned(r, "returned")
        /\ lastRead' = <<r>>
    /\ UNCHANGED <<file, partitionSize, currentPartitionStart, currentPartitionStop,
                   claimed, wholeClaimed>>
    /\ UNCHANGED <<catVars, jobVars>>
    /\ UNCHANGED tlVars

ReadNext == ReadCall

SpecRead == ReadInit /\ [][ReadNext]_vars

(***************************************************************************)
(* C1: no record is returned by the scans of two different partitions,     *)
(* and the partition that returns a record is the one whose byte range     *)
(* [start, stop) holds the offset at which the record's open marker        *)
(* starts.                                                                 *)
(***************************************************************************)
C1_OnePartitionPerRecord ==
    \A i \in DOMAIN claimed :
        /\ \A j \in DOMAIN claimed :
               claimed[i][3] = claimed[j][3] => claimed[i][1] = claimed[j][1]
        /\ claimed[i][1] <= MarkerOffset(claimed[i][3])
        /\ MarkerOffset(claimed[i][3]) < claimed[i][2]

(***************************************************************************)
(* C2: the records returned by the partition scans, concatenated in        *)
(* partition order, are the sequence returned by the scan of one partition *)
(* spanning the whole file.                                                *)
(***************************************************************************)
ClaimedRecords == [i \in DOMAIN claimed |-> claimed[i][3]]

C2_PartitionsEqualWholeFile ==
    scanPc = "done" => ClaimedRecords = wholeClaimed

(***************************************************************************)
(* C3: a scan for the next record with a positive stop_byte returns        *)
(* (found = false, end-of-file = false) when the read position reaches or  *)
(* crosses stop_byte before a record-open marker has been seen, and        *)
(* returns the whole record, through its closing marker, when the record's *)
(* open marker was seen at a read position before stop_byte, also when     *)
(* the closing marker lies beyond stop_byte.                               *)
(***************************************************************************)
\* the values of tell() at which the scanner reads a line when it starts at start
ReadPositions(start) ==
    {start} \cup {LineEnd(i) : i \in {k \in 1..Len(file) : LineEnd(k) > start}}

\* the read positions at which the line read begins with <patient
MarkersSeen(start) ==
    {p \in ReadPositions(start) : p < FileSize /\ StartsWithPatient(lineTokenText(p))}

FirstMarkerSeen(start) ==
    LET seen == MarkersSeen(start) IN
    CHOOSE p \in seen : \A q \in seen : p <= q

\* the closing line of the record that opens at line i
CloseLineOf(i) ==
    CHOOSE c \in (i + 1)..Len(file) :
        /\ file[c].kind = "close"
        /\ \A d \in (i + 1)..(c - 1) : file[d].kind # "close"

HasCloseLineAfter(i) == \E c \in (i + 1)..Len(file) : file[c].kind = "close"

MaxEntries == 3

Put(d, k, v) == [x \in (DOMAIN d) \cup {k} |-> IF x = k THEN v ELSE d[x]]

\* d.update(e)
Merge(d, e) == [k \in (DOMAIN d) \cup (DOMAIN e) |-> IF k \in DOMAIN e THEN e[k] ELSE d[k]]

EmptyDict == [x \in {} |-> 0]

\* the data types of a registry entry (src/tdfTools.py 654-657)
TDF_DATA_TYPE_INT == 0
TDF_DATA_TYPE_FLOAT == 1
TDF_DATA_TYPE_BOOL == 2
TDF_DATA_TYPE_FUTURE_EVENT_CLASS == 3

\* the predicted value of the targets that stand for an event (648)
ANY_EVENT_OR_VALUE == "ANY"

\* g_LabValueInfo (src/tdfTools.py 689-876), the entries the model reads
LabInfo(minVal, maxVal, dataType, numFutureDaysNeeded, FuturePredictedValue) ==
    [minVal |-> minVal, maxVal |-> maxVal, dataType |-> dataType,
     numFutureDaysNeeded |-> numFutureDaysNeeded,
     FuturePredictedValue |-> FuturePredictedValue]

g_LabValueInfo ==
    [K |-> LabInfo(200, 700, TDF_DATA_TYPE_FLOAT, 0, ""),
     Cr |-> LabInfo(30, 800, TDF_DATA_TYPE_FLOAT, 0, ""),
     Tbili |-> LabInfo(50, 2000, TDF_DATA_TYPE_FLOAT, 0, ""),
     INR |-> LabInfo(100, 700, TDF_DATA_TYPE_FLOAT, 0, ""),
     Na |-> LabInfo(11500, 15500, TDF_DATA_TYPE_FLOAT, 0, ""),
     Cl |-> LabInfo(8000, 12000, TDF_DATA_TYPE_FLOAT, 0, ""),
     CO2 |-> LabInfo(1000, 3500, TDF_DATA_TYPE_FLOAT, 0, ""),
     UNa |-> LabInfo(100, 10000, TDF_DATA_TYPE_FLOAT, 0, ""),
     UCl |-> LabInfo(100, 10000, TDF_DATA_TYPE_FLOAT, 0, ""),
     UK |-> LabInfo(100, 10000, TDF_DATA_TYPE_FLOAT, 0, ""),
     GFR |-> LabInfo(100, 9000, TDF_DATA_TYPE_FLOAT, 0, ""),
     MELD |-> LabInfo(100, 5000, TDF_DATA_TYPE_INT, 0, ""),
     IsMale |-> LabInfo(0, 1, TDF_DATA_TYPE_BOOL, 0, ""),
     DiedInpt |-> LabInfo(0, 1, TDF_DATA_TYPE_BOOL, 0, ""),
     DiedIn12Mos |-> LabInfo(0, 1, TDF_DATA_TYPE_BOOL, 60, ""),
     ReadmitIn30Days |-> LabInfo(0, 1, TDF_DATA_TYPE_BOOL, 30, ""),
     DiagMyeloma |-> LabInfo(0, 1, TDF_DATA_TYPE_BOOL, 0, ""),
     InHospital |-> LabInfo(0, 1, TDF_DATA_TYPE_BOOL, 0, ""),
     Future_MELD20 |-> LabInfo(0, TDF_NUM_CATEGORIES_IN_FUTURE_VAL - 1,
                               TDF_DATA_TYPE_FUTURE_EVENT_CLASS, 180, "MELD"),
     Future_AKI |-> LabInfo(0, TDF_NUM_CATEGORIES_IN_FUTURE_VAL - 1,
                            TDF_DATA_TYPE_FUTURE_EVENT_CLASS, -1, "Cr"),
     Future_AKIResolution |-> LabInfo(0, TDF_NUM_CATEGORIES_IN_FUTURE_VAL - 1,
                                      TDF_DATA_TYPE_FUTURE_EVENT_CLASS, 60, "Cr"),
     Future_Admission |-> LabInfo(0, TDF_NUM_CATEGORIES_IN_FUTURE_VAL - 1,
                                  TDF_DATA_TYPE_FUTURE_EVENT_CLASS, 90, ANY_EVENT_OR_VALUE),
     Future_Discharge |-> LabInfo(0, TDF_NUM_CATEGORIES_IN_FUTURE_VAL - 1,
                                  TDF_DATA_TYPE_FUTURE_EVENT_CLASS, 7, ANY_EVENT_OR_VALUE)]

(***************************************************************************)
(* The children of a <Patient> node.  T is the parsed time stamp           *)
(* <<days, hours, minutes>>, text the name=value list of a lab entry, xID  *)
(* and AdmitDate the attributes the forward pass sets (-1: not set), D the *)
(* dose of a medication event: <<>> for an empty string, <<dose>> for a    *)
(* number.  No event entry has a DiedInpt attribute.                       *)
(***************************************************************************)
Node(nodeType, C, V, text, T) ==
    [nodeType |-> nodeType, C |-> C, V |-> V, text |-> text, T |-> T, D |-> <<>>,
     xID |-> -1, AdmitDate |-> -1]

NodeKinds ==
    { Node("d", "L", "", <<<<"Cr", 100>>>>, <<0, 0, 0>>),
      Node("d", "L", "", <<<<"Cr", 150>>>>, <<0, 0, 0>>),
      Node("d", "L", "", <<<<"Tbili", 2000>>, <<"INR", 300>>>>, <<0, 0, 0>>),
      Node("e", "Admit", "", <<>>, <<0, 0, 0>>) }

TimeStamps == { <<100, 8, 0>>, <<100, 12, 0>>, <<110, 8, 0>>, <<290, 8, 0>> }

NodesAt == { [k EXCEPT !.T = t] : k \in NodeKinds, t \in TimeStamps }

\* the entries of a record are written as they happen: the days never decrease
PatientNodeLists ==
    { nodes \in UNION { [1..n -> NodesAt] : n \in 1..MaxEntries } :
        \A i \in 1..(Len(nodes) - 1) : nodes[i].T[1] <= nodes[i + 1].T[1] }

\* math.log at the values the entries can hold, in thousandths
LnMilli(hundredths) ==
    CASE hundredths = 100 -> 0
      [] hundredths = 150 -> 405
      [] hundredths = 2000 -> 2996
      [] hundredths = 300 -> 1099

\* round(a / b) for b > 0
RoundDiv(a, b) == ((2 * a) + b) \div (2 * b)

(***************************************************************************)
(* ProcessDataNodeForwardImpl (src/tdfTools.py 3595-3891) on the dict d    *)
(* that LatestLabsFromCurrentOrEarlierTimes refers to.                     *)
(***************************************************************************)
\* one name=value assignment of a lab entry (3616-3656)
StoreLab(d, labName, labValueFloat) ==
    IF labName \notin DOMAIN g_LabValueInfo THEN d
    ELSE LET labMinVal == g_LabValueInfo[labName].minVal
             labMaxVal == g_LabValueInfo[labName].maxVal
         IN  IF labValueFloat < 0 \/ labValueFloat >= 2 * labMaxVal THEN d
             ELSE IF labValueFloat < labMinVal THEN Put(d, labName, labMinVal)
             ELSE IF labValueFloat > labMaxVal THEN Put(d, labName, labMaxVal)
             ELSE Put(d, labName, labValueFloat)

\* An assignment is <<name, value>> when float() takes the text of the value,
\* and <<name, -1, text>> when float() raises on it (3627-3638).
RECURSIVE StoreLabs(_, _)
StoreLabs(d, assignmentList) ==
    IF assignmentList = <<>> THEN d
    ELSE IF Len(Head(assignmentList)) > 2 THEN StoreLabs(d, Tail(assignmentList))
    ELSE StoreLabs(StoreLab(d, Head(assignmentList)[1], Head(assignmentList)[2]),
                   Tail(assignmentList))

\* GFR by Cockcroft-Gault (3679-3706)
DerivedGFR(d, isMale, wt) ==
    IF "AgeInYrs" \notin DOMAIN d \/ "Cr" \notin DOMAIN d THEN d
    ELSE IF ~(d["AgeInYrs"] >= 0 /\ d["Cr"] >= 0) THEN d
    ELSE LET wtInKg == IF wt <= 0 THEN 70 ELSE wt
             \* ((140 - age) * wt) / (Cr * 72), times 0.85, with 10000 / 72 and
             \* 85 / 100 in lowest terms
             num == (140 - d["AgeInYrs"]) * wtInKg * 1250
             den == d["Cr"] * 9
             result == IF isMale <= 0 THEN RoundDiv(num * 17, den * 20)
                       ELSE RoundDiv(num, den)
         IN  IF result < 200 THEN d ELSE Put(d, "GFR", result)

\* MELD (3873-3890)
DerivedMELD(d) ==
    IF "Cr" \notin DOMAIN d \/ "Tbili" \notin DOMAIN d \/ "INR" \notin DOMAIN d THEN d
    ELSE IF ~(d["Cr"] > 0 /\ d["Tbili"] > 0 /\ d["INR"] > 0) THEN d
    ELSE Put(d, "MELD",
             ((957 * LnMilli(d["Cr"])) + (378 * LnMilli(d["Tbili"]))
                  + (1120 * LnMilli(d["INR"]))) \div 1000 + 643)

\* AnionGap (3708-3720)
DerivedAnionGap(d) ==
    IF "Na" \notin DOMAIN d \/ "Cl" \notin DOMAIN d \/ "CO2" \notin DOMAIN d THEN d
    ELSE IF ~(d["Na"] >= 0 /\ d["Cl"] >= 0 /\ d["CO2"] >= 0) THEN d
    ELSE Put(d, "AnionGap", d["Na"] - (d["Cl"] + d["CO2"]))

\* UrineAnionGap (3722-3734) reads the local variable serumNa of the AnionGap
\* block: it is bound when the dict holds Na, and the read raises
\* UnboundLocalError when it does not.
UrineAnionGapTaken(d) ==
    /\ "UNa" \in DOMAIN d /\ "UK" \in DOMAIN d /\ "UCl" \in DOMAIN d
    /\ d["UNa"] >= 0 /\ d["UK"] >= 0 /\ d["UCl"] >= 0

UrineAnionGapRaises(d) == UrineAnionGapTaken(d) /\ "Na" \notin DOMAIN d

DerivedUrineAnionGap(d) ==
    IF ~UrineAnionGapTaken(d) THEN d
    ELSE Put(d, "UrineAnionGap", (d["Na"] + d["UK"]) - d["UCl"])

\* a diagnosis entry (3604-3609): the text is the list of its diagnoses, and
\* the day of the first entry that gives a diagnosis is kept
DiagnoseName(diagnosisVal) ==
    CASE diagnosisVal = "Gout" -> "Diagnose_Gout"
      [] diagnosisVal = "Cirrhosis" -> "Diagnose_Cirrhosis"
      [] diagnosisVal = "ESLD" -> "Diagnose_ESLD"

RECURSIVE NoteDiagnoses(_, _, _)
NoteDiagnoses(times, diagnosisList, labDateDays) ==
    IF diagnosisList = <<>> THEN times
    ELSE NoteDiagnoses(IF DiagnoseName(Head(diagnosisList)) \in DOMAIN times THEN times
                       ELSE Put(times, DiagnoseName(Head(diagnosisList)), labDateDays),
                       Tail(diagnosisList), labDateDays)

\* the pairs of a lab or vitals entry stored (3613-3665)
StoredLabs(d, dataNode) ==
    IF dataNode.C \in {"L", "V"} THEN StoreLabs(d, dataNode.text) ELSE d

\* the derived values between UrineAnionGap and MELD (3736-3871) need
\* measurements (UCr, BUN, Ca, ...) that no entry of the records holds
ProcessDataNodeForwardImpl(d, dataNode, labDateDays, isMale, wt) ==
    LET stored == StoredLabs(d, dataNode)
        aged == Put(Put(stored, "AgeInYrs", labDateDays \div 365), "AgeInDays", labDateDays)
    IN  DerivedMELD(DerivedUrineAnionGap(DerivedAnionGap(DerivedGFR(aged, isMale, wt))))

\* ProcessDataNodeForwardImpl raises
ProcessDataNodeForwardImplRaises(d, dataNode) == UrineAnionGapRaises(StoredLabs(d, dataNode))

ProcessEventNodeForwardImplKeepsOutcomes(d, eventNode) ==
    IF eventNode.C = "Admit" THEN Put(d, "InHospital", 1)
    ELSE IF eventNode.C = "Discharge" THEN Put(d, "InHospital", 0)
    ELSE d

\* str.lower() on the class names and medication names in use
Lower(str) ==
    CASE str = "Any" -> "any"
      [] str = "Admit" -> "admit"
      [] str = "Discharge" -> "discharge"
      [] str = "Warfarin" -> "warfarin"
      [] str = "Vanc" -> "vanc"
      [] OTHER -> str

\* a dose added to the total of the day, unless an order of the same hour or
\* a later one of the day was counted (3519-3524)
AddDailyDose(newMeds, newMedHours, medName, dose, eventDateHours) ==
    IF medName \notin DOMAIN newMedHours \/ newMedHours[medName] < eventDateHours
    THEN [meds |-> Put(newMeds, medName, newMeds[medName] + dose),
          hours |-> Put(newMedHours, medName, eventDateHours)]
    ELSE [meds |-> newMeds, hours |-> newMedHours]

\* the Med branch of ProcessEventNodeForwardImpl (3483-3576) on
\* NewMedsForCurrentDay and NewMedHoursForCurrentDay
ProcessMedEvent(newMeds, newMedHours, eventNode, eventDateHours) ==
    LET eventValue == Lower(eventNode.V)
        isAM == eventDateHours >= 0 /\ eventDateHours <= 12
        kept == [meds |-> newMeds, hours |-> newMedHours]
    IN  IF eventNode.C # "Med" \/ eventNode.D = <<>> THEN kept
        ELSE LET dose == eventNode.D[1] IN
             CASE eventValue \in {"warfarin", "coumadin", "coum"} ->
                      [kept EXCEPT !.meds = Put(newMeds, "WarfarinDose", dose)]
               [] eventValue \in {"mtx", "methotrexate"} ->
                      [kept EXCEPT !.meds = Put(newMeds, "MTXDose", dose)]
               [] eventValue \in {"tac", "tacrolimus"} ->
                      [kept EXCEPT !.meds =
                          Put(newMeds, IF isAM THEN "TacroDoseAM" ELSE "TacroDosePM", dose)]
               [] eventValue \in {"vanc", "vancomycin"} ->
                      AddDailyDose(newMeds, newMedHours, "VancDose", dose, eventDateHours)
               [] eventValue \in {"vori", "voriconazole"} ->
                      AddDailyDose(newMeds, newMedHours, "VoriDose", dose, eventDateHours)
               [] eventValue \in {"tob", "tobramycin"} ->
                      AddDailyDose(newMeds, newMedHours, "TobraDose", dose, eventDateHours)
               [] eventValue \in {"csa", "cyclosporine"} ->
                      LET added == AddDailyDose(newMeds, newMedHours, "CycDose", dose,
                                                eventDateHours)
                      IN  [added EXCEPT !.meds =
                              Put(added.meds, IF isAM THEN "CycDoseAM" ELSE "CycDosePM",
                                  dose)]
               [] OTHER -> kept

\* the orders of the day before written over the daily doses (3293-3294)
CommittedDailyMedsDropped(dailyMeds, newMeds) == dailyMeds

CommittedDailyMeds(dailyMeds, newMeds) == Merge(dailyMeds, newMeds)

\* ProcessEventNodeForwardImpl (src/tdfTools.py 3434-3580), the classes of NodeKinds
\* and AdmissionNodeKinds
ProcessEventNodeForwardImpl(d, eventNode) ==
    IF eventNode.C = "Admit" THEN Put(d, "InHospital", 1)
    ELSE IF eventNode.C = "Discharge"
    THEN Merge(d, [InHospital |-> 0, DiedInpt |-> 0, DiedIn12Mos |-> 0,
                   ReadmitIn30Days |-> 0, DiagMyeloma |-> 0])
    ELSE d

\* ProcessOutcomeNodeForwardImpl (3904-3936); the text of an outcome entry
\* of the model holds its attributes as <<name, value>> pairs
OutcomeNames == <<"DiedInpt", "DiedIn12Mos", "ReadmitIn30Days", "PreexistingMyeloma",
                  "DiagMyeloma">>

RECURSIVE SetOutcomes(_, _, _)
SetOutcomes(d, outcomesNode, k) ==
    IF k > Len(OutcomeNames) THEN d
    ELSE SetOutcomes(IF \E a \in DOMAIN outcomesNode.text :
                            outcomesNode.text[a] = <<OutcomeNames[k], "T">>
                     THEN Put(d, OutcomeNames[k], 1) ELSE d,
                     outcomesNode, k + 1)

ProcessOutcomeNodeForwardImpl(d, outcomesNode) == SetOutcomes(d, outcomesNode, 1)

\* the test for an entry that joins the latest step (3229-3252)
reuseLatestData(node, latest) ==
    \/ latest = node.T
    \/ /\ node.nodeType = "oc"
       /\ latest[1] = node.T[1] /\ latest[2] >= node.T[2]
    \/ /\ node.nodeType = "d" /\ node.C \in {"d", "D"}
       /\ latest[1] = node.T[1] /\ latest[2] >= node.T[2]
    \/ /\ node.nodeType = "e"
       /\ latest[1] = node.T[1] /\ latest[2] >= node.T[2]

(***************************************************************************)
(* The reverse pass: ProcessEventNodeInReverseImpl (3951-4007) and         *)
(* ProcessDataNodeInReverseImpl (4024-4258).                               *)
(***************************************************************************)
\* the result holds TimesOfFutureEvents and CurrentLengthOfStay
ProcessEventNodeInReverseImpl(times, lengthOfStay, eventNode, eventDateDays) ==
    IF eventNode.C = "Admit"
    THEN [times |-> Put(times, "NextAdmissionDate", eventDateDays),
          CurrentLengthOfStay |-> -1]
    ELSE IF eventNode.C = "Discharge"
    THEN [times |-> Put(times, "NextDischargeDate", eventDateDays),
          CurrentLengthOfStay |-> IF eventNode.AdmitDate > 0
                                  THEN eventDateDays - eventNode.AdmitDate
                                  ELSE lengthOfStay]
    ELSE [times |-> times, CurrentLengthOfStay |-> lengthOfStay]

Lookup(d, k, default) == IF k \in DOMAIN d THEN d[k] ELSE default

\* the running baselines (4040-4045, 4058-4063, 4157-4162)
NewBaselineGFRFalling(currentGFR, baseline) ==
    IF currentGFR > 0 /\ (baseline < 0 \/ currentGFR < baseline)
    THEN currentGFR ELSE baseline

NewBaselineGFR(currentGFR, baseline) ==
    IF currentGFR > 0 /\ (baseline < 0 \/ currentGFR > baseline)
    THEN currentGFR ELSE baseline

NewBaselineCr(currentCr, baseline) ==
    IF currentCr > 0 /\ (baseline < 0 \/ currentCr < baseline)
    THEN currentCr ELSE baseline

NewBaselineMELD(currentMELD, baselineMELD, baselineCr) ==
    IF currentMELD > 0 /\ (baselineMELD < 0 \/ currentMELD < baselineCr)
    THEN currentMELD ELSE baselineMELD

\* 4068-4075
CKDStageOf(baselineGFR) ==
    IF baselineGFR >= 6000 \/ baselineGFR <= 0 THEN 1
    ELSE IF baselineGFR >= 3000 THEN 3
    ELSE IF baselineGFR >= 1500 THEN 4
    ELSE 5

\* 4167-4175
NoteMELDStage(times, currentMELD, labDateDays) ==
    IF ~(currentMELD > 0) THEN times
    ELSE IF currentMELD >= 4000 THEN Put(times, "NextMELD40Date", labDateDays)
    ELSE IF currentMELD >= 3000 THEN Put(times, "NextMELD30Date", labDateDays)
    ELSE IF currentMELD >= 2000 THEN Put(times, "NextMELD20Date", labDateDays)
    ELSE IF currentMELD >= 1000 THEN Put(times, "NextMELD10Date", labDateDays)
    ELSE times

\* the Future_ values and the key of TimesOfFutureEvents each is read from
\* (4122-4141 and 4181-4254)
FutureOfCKD ==
    [Future_CKD5 |-> "NextCKD5Date", Future_CKD4 |-> "NextCKD4Date",
     Future_CKD3 |-> "NextCKD3Date"]

FutureOfMELDAndEvents ==
    [Future_MELD40 |-> "NextMELD40Date", Future_MELD30 |-> "NextMELD30Date",
     Future_MELD20 |-> "NextMELD20Date", Future_MELD10 |-> "NextMELD10Date",
     Future_Admission |-> "NextAdmissionDate",
     Future_Discharge |-> "NextDischargeDate",
     Future_Death |-> "DeathDate",
     Future_TransferOutOfICU |-> "NextTransferToWardDate",
     Future_TransferIntoICU |-> "NextTransferToICUDate",
     Future_RapidResponse |-> "NextRapidResponseDate",
     Future_Dialysis |-> "NextDialysisDate",
     Future_Intubation |-> "NextIntubationDate",
     Future_Cirrhosis |-> "Diagnose_Cirrhosis",
     Future_ESLD |-> "Diagnose_ESLD"]

PutFutures(d, table, times, labDateDays) ==
    [x \in (DOMAIN d) \cup (DOMAIN table) |->
        IF x \in DOMAIN table
        THEN ComputeOutcomeCategory(labDateDays, Lookup(times, table[x], -1))
        ELSE d[x]]

\* the result holds the dict, TimesOfFutureEvents and the three baselines
ProcessDataNodeInReverseImpl(d, times, baseGFR, baseCr, baseMELD, lengthOfStay, labDateDays) ==
    LET currentGFR == Lookup(d, "GFR", -100)
        newGFR == NewBaselineGFR(currentGFR, baseGFR)
        currentCr == Lookup(d, "Cr", -100)
        newCr == NewBaselineCr(currentCr, baseCr)
        currentCKDStage == CKDStageOf(newGFR)
        inAKI == newCr > 0 /\ currentCr > 0 /\ currentCr - newCr > 30
        t1 == IF inAKI THEN Put(times, "NextAKIDate", labDateDays)
              ELSE Put(times, "NextBaselineCrDate", labDateDays)
        t2 == Put(t1, CASE currentCKDStage = 5 -> "NextCKD5Date"
                        [] currentCKDStage = 4 -> "NextCKD4Date"
                        [] currentCKDStage = 3 -> "NextCKD3Date"
                        [] currentCKDStage = 1 -> "NextCKD1Date", labDateDays)
        d1 == Merge(d, [BaselineGFR |-> newGFR, BaselineCr |-> newCr,
                        CKDStage |-> currentCKDStage,
                        inAKI |-> IF inAKI THEN 1 ELSE 0,
                        Future_AKI |->
                            ComputeOutcomeCategory(labDateDays, t1["NextAKIDate"]),
                        Future_AKIResolution |->
                            ComputeOutcomeCategory(labDateDays, t1["NextBaselineCrDate"])])
        d2 == PutFutures(d1, FutureOfCKD, t2, labDateDays)
        currentMELD == Lookup(d, "MELD", -100)
        newMELD == NewBaselineMELD(currentMELD, baseMELD, newCr)
        t3 == NoteMELDStage(t2, currentMELD, labDateDays)
        d3 == PutFutures(Put(d2, "BaselineMELD", newMELD), FutureOfMELDAndEvents,
                         t3, labDateDays)
        d4 == IF lengthOfStay > 0 THEN Put(d3, "LengthOfStay", lengthOfStay) ELSE d3
    IN  [d |-> d4, times |-> t3, BaselineGFR |-> newGFR, BaselineCr |-> newCr,
         BaselineMELD |-> newMELD]


(***************************************************************************)
(* CompilePatientTimelineImpl (src/tdfTools.py 3144-3421), one action per  *)
(* iteration of its two loops.                                             *)
(***************************************************************************)
\* the race of a <Patient> node without a race attribute (1955-1957)
CurrentRaceStr == "C"

\* 3161-3174
InitialLabs(isMale, wt) ==
    [IsMale |-> isMale, WtKg |-> wt,
     IsCaucasian |-> IF CurrentRaceStr = "C" THEN 1 ELSE 0, DiedInpt |-> 0,
     DiedIn12Mos |-> 0, ReadmitIn30Days |-> 0, PreexistingMyeloma |-> 0,
     DiagMyeloma |-> 0]

\* 3187-3191
InitialDailyMeds ==
    [WarfarinDose |-> 0, MTXDose |-> 0, TacroDoseAM |-> 0, TacroDosePM |-> 0,
     VoriDose |-> 0]

\* 3317-3320
InitialNewMeds ==
    [VancDose |-> 0, TobraDose |-> 0, VoriDose |-> 0, CycDose |-> 0]

\* the state at the head of the forward loop (1945-1961, 3150-3202), for the
\* records of a set
TimelineStart(records) ==
    /\ CatIdle
    /\ ScanIdle
    /\ JobIdle
    /\ CurrentIsMale \in {0, 1}
    /\ CurrentWtInKg = -1
    /\ currentPatientNode \in records
    /\ CompiledTimeline = <<>>
    /\ dicts = << InitialLabs(CurrentIsMale, CurrentWtInKg) >>
    /\ LatestLabsFromCurrentOrEarlierTimes = 1
    /\ TimesOfFutureEvents = EmptyDict
    /\ latestTimeLineEntryTime = <<-1, -1, -1>>
    /\ BaselineGFR = -100
    /\ BaselineCr = -100
    /\ BaselineMELD = -100
    /\ DateOfLatestCKD5 = -1
    /\ DailyMeds = InitialDailyMeds
    /\ NewMedsForCurrentDay = EmptyDict
    /\ NewMedHoursForCurrentDay = EmptyDict
    /\ CurrentAdmitDay = -1
    /\ CurrentLengthOfStay = -1
    /\ currentNode = 1
    /\ tlPc = "forward"
    /\ startTimeLineIDInCurrentWindow = -1
    /\ lastTimeLineIDInCurrentWindow = -1
    /\ fetchArgs = <<>>
    /\ fetchResult = <<>>
    /\ WindowStartEventClass = "any"
    /\ WindowStopEventClass = "any"
    /\ startNodeInCurrentWindow = 0
    /\ lastNodeInCurrentWindow = 0
    /\ windowCall = "none"
    /\ windowFound = FALSE
    /\ rerun = "none"
    /\ firstRunFutures = <<>>

TimelineInit == TimelineStart(PatientNodeLists)

\* privateCopy = self.LatestLabsFromCurrentOrEarlierTimes.copy() (3286): the
\* heap with the new dict object, and the index of that object
PrivateCopyShared(heap, ref) == [heap |-> heap, ref |-> ref]

PrivateCopy(heap, ref) == [heap |-> Append(heap, heap[ref]), ref |-> Len(heap) + 1]

\* TDF_ParseTimeStamp (1018-1030).  A time code is the tuple of the numbers
\* between its colons: <<100, 8, 0>> for "0100:08:00", <<110, 8>> for "0110:08",
\* <<>> for the empty string.  The empty string ends the process with
\* sys.exit(0); a missing field raises IndexError at words[1] or words[2].
TDF_ParseTimeStamp(timeCode) ==
    IF timeCode = <<>> THEN "exit"
    ELSE IF Len(timeCode) < 3 THEN "IndexError"
    ELSE "ok"

\* one iteration of the forward loop (3203-3354) once the time stamp is parsed
ProcessNodeForward ==
    /\ LET node == currentPatientNode[currentNode]
           labDateDays == node.T[1]
           reuse == reuseLatestData(node, latestTimeLineEntryTime)
                        /\ CompiledTimeline # <<>>
           newDay == latestTimeLineEntryTime[1] < 0
                        \/ labDateDays # latestTimeLineEntryTime[1]
           copy == PrivateCopy(dicts, LatestLabsFromCurrentOrEarlierTimes)
           ref == IF reuse THEN LatestLabsFromCurrentOrEarlierTimes ELSE copy.ref
           meds == IF ~reuse /\ newDay
                   THEN CommittedDailyMeds(DailyMeds, NewMedsForCurrentDay)
                   ELSE DailyMeds
           ordered == ProcessMedEvent(
                          IF ~reuse /\ newDay THEN InitialNewMeds ELSE NewMedsForCurrentDay,
                          IF ~reuse /\ newDay THEN EmptyDict ELSE NewMedHoursForCurrentDay,
                          node, node.T[2])
           d0 == IF reuse THEN dicts[ref]
                 ELSE IF newDay THEN Merge(copy.heap[ref], meds)
                 ELSE copy.heap[ref]
           d1 == IF node.nodeType = "oc" THEN ProcessOutcomeNodeForwardImpl(d0, node)
                 ELSE IF node.nodeType = "e" THEN ProcessEventNodeForwardImpl(d0, node)
                 ELSE ProcessDataNodeForwardImpl(d0, node, labDateDays,
                                                 CurrentIsMale, CurrentWtInKg)
           ckd5 == IF "CKDStage" \in DOMAIN d1 /\ d1["CKDStage"] >= 5
                   THEN labDateDays ELSE DateOfLatestCKD5
           daysSinceCKD5 == IF ckd5 > 0 THEN labDateDays - ckd5 ELSE -1
           d2 == Put(d1, "DaysSinceDialysis", daysSinceCKD5)
           timeline == IF reuse THEN CompiledTimeline
                       ELSE Append(CompiledTimeline,
                                   [TimeDays |-> node.T[1], TimeHours |-> node.T[2],
                                    TimeMin |-> node.T[3],
                                    timelinePointID |-> Len(CompiledTimeline),
                                    data |-> ref])
       IN  /\ CompiledTimeline' = timeline
           /\ dicts' = [(IF reuse THEN dicts ELSE copy.heap) EXCEPT ![ref] = d2]
           /\ LatestLabsFromCurrentOrEarlierTimes' = ref
           /\ DailyMeds' = meds
           /\ NewMedsForCurrentDay' =
                  IF node.nodeType = "e" THEN ordered.meds
                  ELSE IF ~reuse /\ newDay THEN InitialNewMeds
                  ELSE NewMedsForCurrentDay
           /\ NewMedHoursForCurrentDay' =
                  IF node.nodeType = "e" THEN ordered.hours
                  ELSE IF ~reuse /\ newDay THEN EmptyDict
                  ELSE NewMedHoursForCurrentDay
           /\ latestTimeLineEntryTime' = IF reuse THEN latestTimeLineEntryTime ELSE node.T
           /\ currentPatientNode' =
                  [currentPatientNode EXCEPT
                      ![currentNode].xID = Len(timeline) - 1,
                      ![currentNode].AdmitDate =
                          IF node.nodeType = "e" /\ node.C = "Discharge"
                          THEN CurrentAdmitDay ELSE node.AdmitDate]
           /\ CurrentAdmitDay' = IF node.nodeType = "e" /\ node.C = "Admit"
                                 THEN labDateDays
                                 ELSE IF node.nodeType = "e" /\ node.C = "Discharge"
                                 THEN -1 ELSE CurrentAdmitDay
           /\ DateOfLatestCKD5' = ckd5
           /\ TimesOfFutureEvents' =
                  IF node.nodeType = "d" /\ node.C = "D"
                  THEN NoteDiagnoses(TimesOfFutureEvents, node.text, labDateDays)
                  ELSE TimesOfFutureEvents
    /\ currentNode' = currentNode + 1
    /\ UNCHANGED <<CurrentIsMale, CurrentWtInKg, BaselineGFR,
                   BaselineCr, BaselineMELD, CurrentLengthOfStay, tlPc,
                   startTimeLineIDInCurrentWindow,
                   lastTimeLineIDInCurrentWindow, fetchArgs, fetchResult>>
    /\ UNCHANGED <<catVars, jobVars, scanVars, winVars, runVars>>

\* how one iteration of the forward loop ends: "skip" for an entry that is
\* neither an event nor a data entry (3212-3224), what TDF_ParseTimeStamp does
\* on a time stamp that does not parse, what ProcessDataNodeForwardImpl
\* raises, or "ok"
ForwardOutcome(node) ==
    IF node.nodeType \notin {"e", "d"} THEN "skip"
    ELSE IF TDF_ParseTimeStamp(node.T) # "ok" THEN TDF_ParseTimeStamp(node.T)
    ELSE IF /\ node.nodeType = "d"
            /\ ProcessDataNodeForwardImplRaises(
                   dicts[LatestLabsFromCurrentOrEarlierTimes], node)
    THEN "UnboundLocalError"
    ELSE "ok"

\* one iteration of the forward loop (3203-3354); nothing in
\* CompilePatientTimelineImpl or its callers handles what TDF_ParseTimeStamp
\* or ProcessDataNodeForwardImpl raises, so the compilation ends at the entry
ForwardNode ==
    /\ tlPc = "forward"
    /\ currentNode \in 1..Len(currentPatientNode)
    /\ LET outcome == ForwardOutcome(currentPatientNode[currentNode]) IN
       IF outcome = "ok"
       THEN ProcessNodeForward
       ELSE /\ tlPc' = IF outcome = "skip" THEN tlPc ELSE outcome
            /\ currentNode' = IF outcome = "skip" THEN currentNode + 1 ELSE currentNode
            /\ UNCHANGED <<CurrentIsMale, CurrentWtInKg, currentPatientNode,
                           CompiledTimeline, dicts, LatestLabsFromCurrentOrEarlierTimes,
                           TimesOfFutureEvents, latestTimeLineEntryTime, BaselineGFR,
                           BaselineCr, BaselineMELD, DateOfLatestCKD5, DailyMeds,
                           NewMedsForCurrentDay, NewMedHoursForCurrentDay, CurrentAdmitDay, CurrentLengthOfStay,
                           startTimeLineIDInCurrentWindow,
                           lastTimeLineIDInCurrentWindow, fetchArgs, fetchResult>>
            /\ UNCHANGED <<catVars, jobVars, scanVars, winVars, runVars>>

\* between the loops (3357-3368)
StartReversePass ==
    /\ tlPc = "forward"
    /\ currentNode > Len(currentPatientNode)
    /\ TimesOfFutureEvents' = Put(Put(TimesOfFutureEvents, "NextAKIDate", -1),
                                  "NextBaselineCrDate", -1)
    /\ CurrentLengthOfStay' = -1
    /\ currentNode' = Len(currentPatientNode)
    /\ tlPc' = "reverse"
    /\ UNCHANGED <<CurrentIsMale, CurrentWtInKg, currentPatientNode, CompiledTimeline,
                   dicts, LatestLabsFromCurrentOrEarlierTimes, latestTimeLineEntryTime,
                   BaselineGFR, BaselineCr, BaselineMELD, DateOfLatestCKD5, DailyMeds,
                   NewMedsForCurrentDay, NewMedHoursForCurrentDay, CurrentAdmitDay, startTimeLineIDInCurrentWindow,
                   lastTimeLineIDInCurrentWindow, fetchArgs, fetchResult>>
    /\ UNCHANGED <<catVars, jobVars, scanVars, winVars, runVars>>

\* one iteration of the reverse loop (3369-3415)
ReverseNode ==
    /\ tlPc = "reverse"
    /\ currentNode \in 1..Len(currentPatientNode)
    /\ LET node == currentPatientNode[currentNode]
           ref == CompiledTimeline[node.xID + 1].data
           r == ProcessDataNodeInReverseImpl(dicts[ref], TimesOfFutureEvents, BaselineGFR,
                                             BaselineCr, BaselineMELD,
                                             CurrentLengthOfStay, node.T[1])
           e == ProcessEventNodeInReverseImpl(TimesOfFutureEvents, CurrentLengthOfStay,
                                              node, node.T[1])
       IN  IF node.nodeType \notin {"e", "d"}
           THEN UNCHANGED <<LatestLabsFromCurrentOrEarlierTimes, TimesOfFutureEvents,
                            CurrentLengthOfStay, dicts, BaselineGFR, BaselineCr,
                            BaselineMELD>>
           ELSE
           /\ LatestLabsFromCurrentOrEarlierTimes' = ref
           /\ IF node.nodeType = "e"
              THEN /\ TimesOfFutureEvents' = e.times
                   /\ CurrentLengthOfStay' = e.CurrentLengthOfStay
                   /\ UNCHANGED <<dicts, BaselineGFR, BaselineCr, BaselineMELD>>
              ELSE /\ TimesOfFutureEvents' = r.times
                   /\ UNCHANGED CurrentLengthOfStay
                   /\ dicts' = [dicts EXCEPT ![ref] = r.d]
                   /\ BaselineGFR' = r.BaselineGFR
                   /\ BaselineCr' = r.BaselineCr
                   /\ BaselineMELD' = r.BaselineMELD
    /\ currentNode' = currentNode - 1
    /\ UNCHANGED <<CurrentIsMale, CurrentWtInKg, currentPatientNode, CompiledTimeline,
                   latestTimeLineEntryTime, DateOfLatestCKD5, DailyMeds,
                   NewMedsForCurrentDay, NewMedHoursForCurrentDay, CurrentAdmitDay, tlPc,
                   startTimeLineIDInCurrentWindow, lastTimeLineIDInCurrentWindow,
                   fetchArgs, fetchResult>>
    /\ UNCHANGED <<catVars, jobVars, scanVars, winVars, runVars>>

\* the end of CompilePatientTimelineImpl (3420) and ResetWindowBoundariesInPatient
\* (1976, 1991-2039)
FinishCompile ==
    /\ tlPc = "reverse"
    /\ currentNode = 0
    /\ startTimeLineIDInCurrentWindow' = currentPatientNode[1].xID
    /\ lastTimeLineIDInCurrentWindow' = currentPatientNode[Len(currentPatientNode)].xID
    /\ tlPc' = "ready"
    /\ UNCHANGED <<CurrentIsMale, CurrentWtInKg, currentPatientNode, CompiledTimeline,
                   dicts, LatestLabsFromCurrentOrEarlierTimes, TimesOfFutureEvents,
                   latestTimeLineEntryTime, BaselineGFR, BaselineCr, BaselineMELD,
                   DateOfLatestCKD5, DailyMeds, NewMedsForCurrentDay, NewMedHoursForCurrentDay, CurrentAdmitDay,
                   CurrentLengthOfStay,
                   currentNode, fetchArgs, fetchResult>>
    /\ WindowStartEventClass' = "any"
    /\ WindowStopEventClass' = "any"
    /\ startNodeInCurrentWindow' = 1
    /\ lastNodeInCurrentWindow' = Len(currentPatientNode)
    /\ UNCHANGED <<windowCall, windowFound>>
    /\ UNCHANGED <<catVars, jobVars, scanVars, runVars>>


(***************************************************************************)
(* The sample extractor.  A variable name is held parsed: its stem and     *)
(* <<>> for a name without a bracket or <<n>> for "stem[n]".               *)
(***************************************************************************)
MAX_PREVIOUS_LAB_EXTRA_PREVIOUS == 365
MAX_PREVIOUS_LAB_EXTRA_FUTURE == 60

VarName(stem, offset) == [offset |-> offset, stem |-> stem]

\* the offset of ParseSingleVariable and ParseVariables (2210-2277)
OffsetOf(valueName) == IF valueName.offset = <<>> THEN 0 ELSE valueName.offset[1]

TimelineEntry(timeLineIndex) == CompiledTimeline[timeLineIndex + 1]

DataOf(timeLineIndex) == dicts[TimelineEntry(timeLineIndex).data]

\* a first loop that takes the latest step for every predicted value
FindFutureDayNumOfLatestStep(latestTimeLineIndex, firstTimelineID, NameOfFutureLabValue) ==
    IF ~(latestTimeLineIndex >= firstTimelineID) THEN -1
    ELSE TimelineEntry(latestTimeLineIndex).TimeDays

\* GetBoundsForDataFetch, the first loop (2308-2319)
RECURSIVE FindFutureDayNum(_, _, _)
FindFutureDayNum(latestTimeLineIndex, firstTimelineID, NameOfFutureLabValue) ==
    IF ~(latestTimeLineIndex >= firstTimelineID) THEN -1
    ELSE IF NameOfFutureLabValue \in DOMAIN DataOf(latestTimeLineIndex)
    THEN TimelineEntry(latestTimeLineIndex).TimeDays
    ELSE FindFutureDayNum(latestTimeLineIndex - 1, firstTimelineID, NameOfFutureLabValue)

\* GetBoundsForDataFetch, the second loop (2325-2333)
RECURSIVE ClipLastTimelineID(_, _, _, _)
ClipLastTimelineID(lastTimelineID, firstTimelineID, futureDayNum, numFutureDaysNeeded) ==
    IF ~(lastTimelineID >= firstTimelineID) THEN lastTimelineID
    ELSE IF futureDayNum >= TimelineEntry(lastTimelineID).TimeDays + numFutureDaysNeeded
    THEN lastTimelineID
    ELSE ClipLastTimelineID(lastTimelineID - 1, firstTimelineID, futureDayNum,
                            numFutureDaysNeeded)

GetBoundsForDataFetchUnclipped(resultLabInfo) ==
    LET firstTimelineID == startTimeLineIDInCurrentWindow
        NameOfFutureLabValue == resultLabInfo.FuturePredictedValue
        futureDayNum == FindFutureDayNum(Len(CompiledTimeline) - 1, firstTimelineID,
                                         NameOfFutureLabValue)
    IN  IF NameOfFutureLabValue = ""
        THEN <<firstTimelineID, lastTimeLineIDInCurrentWindow>>
        ELSE IF futureDayNum < 0 THEN <<-1, -1>>
        ELSE <<firstTimelineID, lastTimeLineIDInCurrentWindow>>

GetBoundsForDataFetchWithoutSignal(resultLabInfo) ==
    LET firstTimelineID == startTimeLineIDInCurrentWindow
        NameOfFutureLabValue == resultLabInfo.FuturePredictedValue
        numFutureDaysNeeded == resultLabInfo.numFutureDaysNeeded
        futureDayNum == FindFutureDayNum(Len(CompiledTimeline) - 1, firstTimelineID,
                                         NameOfFutureLabValue)
        lastTimelineID == ClipLastTimelineID(lastTimeLineIDInCurrentWindow, firstTimelineID,
                                             futureDayNum, numFutureDaysNeeded)
    IN  IF NameOfFutureLabValue = ""
        THEN <<firstTimelineID, lastTimeLineIDInCurrentWindow>>
        ELSE IF futureDayNum < 0 THEN <<firstTimelineID, lastTimeLineIDInCurrentWindow>>
        ELSE IF lastTimelineID < firstTimelineID THEN <<-1, -1>>
        ELSE <<firstTimelineID, lastTimelineID>>

\* GetBoundsForDataFetch (2289-2340)
GetBoundsForDataFetch(resultLabInfo) ==
    LET firstTimelineID == startTimeLineIDInCurrentWindow
        NameOfFutureLabValue == resultLabInfo.FuturePredictedValue
        numFutureDaysNeeded == resultLabInfo.numFutureDaysNeeded
        futureDayNum == FindFutureDayNum(Len(CompiledTimeline) - 1, firstTimelineID,
                                         NameOfFutureLabValue)
        lastTimelineID == ClipLastTimelineID(lastTimeLineIDInCurrentWindow, firstTimelineID,
                                             futureDayNum, numFutureDaysNeeded)
    IN  IF NameOfFutureLabValue = ""
        THEN <<firstTimelineID, lastTimeLineIDInCurrentWindow>>
        ELSE IF futureDayNum < 0 THEN <<-1, -1>>
        ELSE IF lastTimelineID < firstTimelineID THEN <<-1, -1>>
        ELSE <<firstTimelineID, lastTimelineID>>

\* GetNamedValueFromTimeline, offset < 0 (2379-2399)
RECURSIVE PastValue(_, _, _)
PastValue(valueName, pastTimeLineIndex, targetDayNum) ==
    IF ~(pastTimeLineIndex >= 0) THEN <<FALSE, -1>>
    ELSE LET pastDayNum == TimelineEntry(pastTimeLineIndex).TimeDays IN
         IF pastDayNum <= targetDayNum
                /\ targetDayNum - pastDayNum >= MAX_PREVIOUS_LAB_EXTRA_PREVIOUS
         THEN <<FALSE, -1>>
         ELSE IF pastDayNum <= targetDayNum /\ valueName \in DOMAIN DataOf(pastTimeLineIndex)
         THEN <<TRUE, DataOf(pastTimeLineIndex)[valueName]>>
         ELSE PastValue(valueName, pastTimeLineIndex - 1, targetDayNum)

\* GetNamedValueFromTimeline, offset > 0 (2407-2429)
RECURSIVE FutureValue(_, _, _)
FutureValue(valueName, futureTimeLineIndex, targetDayNum) ==
    IF ~(futureTimeLineIndex <= Len(CompiledTimeline) - 1) THEN <<FALSE, -1>>
    ELSE LET futureDayNum == TimelineEntry(futureTimeLineIndex).TimeDays IN
         IF futureDayNum >= targetDayNum
                /\ futureDayNum - targetDayNum >= MAX_PREVIOUS_LAB_EXTRA_FUTURE
         THEN <<FALSE, -1>>
         ELSE IF futureDayNum >= targetDayNum
                    /\ valueName \in DOMAIN DataOf(futureTimeLineIndex)
         THEN <<TRUE, DataOf(futureTimeLineIndex)[valueName]>>
         ELSE FutureValue(valueName, futureTimeLineIndex + 1, targetDayNum)

\* GetNamedValueFromTimeline (2355-2434): <<foundIt, result>>
GetNamedValueFromTimeline(valueName, offset, timeLineIndex, currentDayNum) ==
    IF offset = 0
    THEN IF valueName \in DOMAIN DataOf(timeLineIndex)
         THEN <<TRUE, DataOf(timeLineIndex)[valueName]>>
         ELSE <<FALSE, -1>>
    ELSE IF offset < 0 THEN PastValue(valueName, timeLineIndex, currentDayNum + offset)
    ELSE FutureValue(valueName, timeLineIndex, currentDayNum + offset)

\* TDF_NormalizeLabValue (4461-4495), in hundredths; the dataType of a registry
\* entry is a number, never one of the two names tested, so the value is
\* rounded to two places
TDF_NormalizeLabValue(labValue, minVal, maxVal) ==
    LET clipped == IF labValue < minVal THEN minVal
                   ELSE IF labValue > maxVal THEN maxVal ELSE labValue
    IN  IF maxVal - minVal > 0 THEN RoundDiv(100 * (clipped - minVal), maxVal - minVal)
        ELSE 0


(***************************************************************************)
(* GetDataFromCurrentWindow (src/tdfTools.py 2569-2775).  A tensor cell    *)
(* holds the value written and the timeline step of the loop iteration     *)
(* that wrote it; torch.zeros gives cells of value 0 written by no step    *)
(* (-1).  The three lists of required properties are held as one list of   *)
(* [relation, name, value], and numRequireProperties is its length.        *)
(***************************************************************************)
\* the variables whose values the model holds in hundredths
InHundredths == {"K", "Cr", "Tbili", "INR", "GFR", "MELD"}

\* int(x) of Python, as a whole number of units
IntOf(valueName, x) ==
    LET unit == IF valueName \in InHundredths THEN 100 ELSE 1
    IN  IF x >= 0 THEN x \div unit ELSE -((-x) \div unit)

PropertyRelations == {"=", "!=", ".LT.", ".LTE.", ".GT.", ".GTE."}

Property(relation, name, value) == [relation |-> relation, name |-> name, value |-> value]

\* one pass of the loop of CheckIfCurrentTimeMeetsCriteria (2451-2537): TRUE when
\* the loop goes on to the next property
MeetsCriterion(property, timeLineIndex, currentDayNum) ==
    LET valueName == property.name
        found == GetNamedValueFromTimeline(valueName, 0, timeLineIndex, currentDayNum)
        dataTypeName == g_LabValueInfo[valueName].dataType
        asFloat == dataTypeName = TDF_DATA_TYPE_FLOAT
        asInt == dataTypeName \in {TDF_DATA_TYPE_INT, TDF_DATA_TYPE_FUTURE_EVENT_CLASS}
        actualVal == IF asInt THEN IntOf(valueName, found[2]) ELSE found[2]
        targetVal == IF asInt THEN IntOf(valueName, property.value) ELSE property.value
        compared == asFloat \/ asInt
    IN  IF valueName \notin DOMAIN g_LabValueInfo THEN FALSE
        ELSE IF ~found[1] THEN FALSE
        ELSE CASE property.relation = "=" -> ~(compared /\ actualVal # targetVal)
               [] property.relation = "!=" -> ~(compared /\ actualVal = targetVal)
               [] property.relation = ".LT." -> ~(compared /\ actualVal >= targetVal)
               [] property.relation = ".LTE." -> ~(compared /\ actualVal > targetVal)
               [] property.relation = ".GT." -> ~(compared /\ actualVal <= targetVal)
               [] property.relation = ".GTE." -> ~(compared /\ actualVal < targetVal)
               [] OTHER -> FALSE

\* CheckIfCurrentTimeMeetsCriteria (2444-2541): no property returns False
CheckIfCurrentTimeMeetsCriteria(requireProperties, timeLineIndex, currentDayNum) ==
    \A propNum \in DOMAIN requireProperties :
        MeetsCriterion(requireProperties[propNum], timeLineIndex, currentDayNum)

Cell(value, step) == [value |-> value, step |-> step]

RECURSIVE Repeat(_, _)
Repeat(v, n) == IF n <= 0 THEN <<>> ELSE Append(Repeat(v, n - 1), v)

\* torch.zeros(rows, 1, cols)
Zeros(rows, cols) == Repeat(Repeat(Cell(0, -1), cols), rows)

\* torch.zeros(rows, 1, 1)
ZeroColumn(rows) == Repeat(Cell(0, -1), rows)

\* the loop over the input names (2648-2686): foundAllInputs and the tensor
RECURSIVE ReadInputs(_, _, _, _, _, _)
ReadInputs(inputTensor, row, inputValueNameList, valueIndex, timeLineIndex, currentDayNum) ==
    IF valueIndex > Len(inputValueNameList)
    THEN [foundAllInputs |-> TRUE, inputTensor |-> inputTensor]
    ELSE LET valueName == inputValueNameList[valueIndex].stem
             r == GetNamedValueFromTimeline(valueName, OffsetOf(inputValueNameList[valueIndex]),
                                            timeLineIndex, currentDayNum)
         IN  IF ~r[1] \/ valueName \notin DOMAIN g_LabValueInfo
             THEN [foundAllInputs |-> FALSE, inputTensor |-> inputTensor]
             ELSE LET normValue == TDF_NormalizeLabValue(r[2], g_LabValueInfo[valueName].minVal,
                                                         g_LabValueInfo[valueName].maxVal)
                  IN  ReadInputs([inputTensor EXCEPT ![row + 1][valueIndex] =
                                                          Cell(normValue, timeLineIndex)],
                                 row, inputValueNameList, valueIndex + 1, timeLineIndex,
                                 currentDayNum)

\* the loop over the steps (2621-2735)
RECURSIVE FetchLoop(_, _, _, _, _, _, _, _, _, _, _)
FetchLoop(timeLineIndex, lastTimelineID, maxNumCompleteLabSets, inputTensor, resultTensor, numReturnedDataSets, lastHourReturned, inputValueNameList, resultName, requireProperties, minIntervalInHours) ==
    IF ~(timeLineIndex <= lastTimelineID)
    THEN [numReturnedDataSets |-> numReturnedDataSets, inputTensor |-> inputTensor,
          resultTensor |-> resultTensor]
    ELSE LET currentDayNum == TimelineEntry(timeLineIndex).TimeDays
             currentHour == TimelineEntry(timeLineIndex).TimeHours
             fOverwriteLatestLabs ==
                 /\ lastHourReturned > 0
                 /\ minIntervalInHours > 0
                 /\ (currentDayNum * 24) + currentHour < lastHourReturned + minIntervalInHours
             row == IF fOverwriteLatestLabs THEN numReturnedDataSets - 1
                    ELSE numReturnedDataSets
             in == ReadInputs(inputTensor, row, inputValueNameList, 1, timeLineIndex,
                              currentDayNum)
             fMeetsCriteria ==
                 Len(requireProperties) > 0 =>
                     CheckIfCurrentTimeMeetsCriteria(requireProperties, timeLineIndex,
                                                     currentDayNum)
             res == GetNamedValueFromTimeline(resultName.stem, OffsetOf(resultName),
                                              timeLineIndex, currentDayNum)
             newResult == [resultTensor EXCEPT ![row + 1] = Cell(res[2], timeLineIndex)]
         IN  IF ~in.foundAllInputs \/ ~fMeetsCriteria \/ ~res[1]
             THEN FetchLoop(timeLineIndex + 1, lastTimelineID, maxNumCompleteLabSets,
                            in.inputTensor, resultTensor, numReturnedDataSets,
                            lastHourReturned, inputValueNameList, resultName,
                            requireProperties, minIntervalInHours)
             ELSE IF fOverwriteLatestLabs
             THEN FetchLoop(timeLineIndex + 1, lastTimelineID, maxNumCompleteLabSets,
                            in.inputTensor, newResult, numReturnedDataSets,
                            lastHourReturned, inputValueNameList, resultName,
                            requireProperties, minIntervalInHours)
             ELSE IF numReturnedDataSets + 1 >= maxNumCompleteLabSets
             THEN [numReturnedDataSets |-> numReturnedDataSets + 1,
                   inputTensor |-> in.inputTensor, resultTensor |-> newResult]
             ELSE FetchLoop(timeLineIndex + 1, lastTimelineID, maxNumCompleteLabSets,
                            in.inputTensor, newResult, numReturnedDataSets + 1,
                            (currentDayNum * 24) + currentHour, inputValueNameList,
                            resultName, requireProperties, minIntervalInHours)

\* "return 0, None, None".  raised names the exception that left the call
\* ("" for a normal return), printed holds the variable names its messages name.
NoData == [inputTensor |-> <<>>, resultTensor |-> <<>>, numReturnedDataSets |-> 0,
           tensors |-> FALSE, raised |-> "", printed |-> {}]

\* 2592-2774, after ParseVariables has found resultLabInfo
GetDataWithLabInfo(inputValueNameList, resultLabInfo, resultName, requireProperties, minIntervalInHours) ==
    LET bounds == GetBoundsForDataFetch(resultLabInfo)
        firstTimelineID == bounds[1]
        lastTimelineID == bounds[2]
        maxNumCompleteLabSets == (lastTimelineID - firstTimelineID) + 1
        r == FetchLoop(firstTimelineID, lastTimelineID, maxNumCompleteLabSets,
                       Zeros(maxNumCompleteLabSets, Len(inputValueNameList)),
                       ZeroColumn(maxNumCompleteLabSets), 0, -1, inputValueNameList,
                       resultName, requireProperties, minIntervalInHours)
    IN  IF firstTimelineID < 0 THEN NoData
        ELSE IF maxNumCompleteLabSets <= 0 THEN NoData
        ELSE IF r.numReturnedDataSets <= 0 THEN NoData
        ELSE [numReturnedDataSets |-> r.numReturnedDataSets, tensors |-> TRUE,
              inputTensor |-> SubSeq(r.inputTensor, 1, r.numReturnedDataSets),
              resultTensor |-> SubSeq(r.resultTensor, 1, r.numReturnedDataSets),
              raised |-> "", printed |-> {}]

\* ParseSingleVariable (2210-2229) and the start of ParseVariables (2240-2245)
\* for a result name that is not in the registry: ParseSingleVariable prints
\* the stem and returns None, None, 0; ParseVariables then builds its own
\* message from the stem it was handed, None, and str + None raises TypeError,
\* which nothing catches.
ParseVariablesUnknownResult(resultValueName) ==
    [NoData EXCEPT !.raised = "TypeError", !.printed = {resultValueName.stem}]

GetDataFromCurrentWindowImpl(inputValueNameList, resultValueName, requireProperties, minIntervalInHours) ==
    IF resultValueName.stem \notin DOMAIN g_LabValueInfo
    THEN ParseVariablesUnknownResult(resultValueName)
    ELSE GetDataWithLabInfo(inputValueNameList, g_LabValueInfo[resultValueName.stem],
                            resultValueName, requireProperties, minIntervalInHours)

\* the calls made on a compiled record
InputLists == { <<VarName("Cr", <<>>)>>,
                <<VarName("IsMale", <<>>), VarName("Cr", <<-10>>)>> }

ResultNames == { VarName(n, <<>>) :
                   n \in {"Future_AKIResolution", "Future_AKI", "Future_MELD20", "Cr"} }

MinIntervals == {0, 24}

\* one call, its arguments drawn from the sets given
Fetch(inputLists, resultNames, propertyLists, minIntervals) ==
    /\ tlPc = "ready"
    /\ \E inputValueNameList \in inputLists, resultValueName \in resultNames,
          requireProperties \in propertyLists, minIntervalInHours \in minIntervals :
          /\ fetchArgs' = [inputValueNameList |-> inputValueNameList,
                           resultValueName |-> resultValueName,
                           requireProperties |-> requireProperties,
                           minIntervalInHours |-> minIntervalInHours]
          /\ fetchResult' = << GetDataFromCurrentWindowImpl(inputValueNameList,
                                                           resultValueName,
                                                           requireProperties,
                                                           minIntervalInHours) >>
    /\ tlPc' = "fetched"
    /\ UNCHANGED <<CurrentIsMale, CurrentWtInKg, currentPatientNode, CompiledTimeline,
                   dicts, LatestLabsFromCurrentOrEarlierTimes, TimesOfFutureEvents,
                   latestTimeLineEntryTime, BaselineGFR, BaselineCr, BaselineMELD,
                   DateOfLatestCKD5, DailyMeds, NewMedsForCurrentDay, NewMedHoursForCurrentDay, CurrentAdmitDay,
                   CurrentLengthOfStay,
                   currentNode, startTimeLineIDInCurrentWindow,
                   lastTimeLineIDInCurrentWindow>>
    /\ UNCHANGED <<catVars, jobVars, scanVars, winVars, runVars>>

\* the calls of SpecTimeline pass no required property
GetDataFromCurrentWindow == Fetch(InputLists, ResultNames, {<<>>}, MinIntervals)

TimelineNext ==
    \/ ForwardNode
    \/ StartReversePass
    \/ ReverseNode
    \/ FinishCompile
    \/ GetDataFromCurrentWindow

SpecTimeline == TimelineInit /\ [][TimelineNext]_vars


(***************************************************************************)
(* Properties of the compiled timeline                                     *)
(***************************************************************************)
Steps == 1..Len(CompiledTimeline)

\* the snapshot of the i-th step, counted from 1
Snapshot(i) == dicts[CompiledTimeline[i].data]

Compiled == tlPc \in {"ready", "fetched"}

\* C8: the BaselineGFR values the reverse pass has written into the snapshots
\* never increase from a step to a later step
C8_BaselineGFRNonIncreasing ==
    \A i, j \in Steps :
        (/\ i < j
         /\ "BaselineGFR" \in DOMAIN Snapshot(i)
         /\ "BaselineGFR" \in DOMAIN Snapshot(j))
            => Snapshot(i)["BaselineGFR"] >= Snapshot(j)["BaselineGFR"]

\* a record whose earlier step has the lower GFR: its baseline is the later,
\* higher GFR, copied back
C8_Witness ==
    /\ Compiled
    /\ \E i, j \in Steps :
          /\ i < j
          /\ "GFR" \in DOMAIN Snapshot(i)
          /\ "GFR" \in DOMAIN Snapshot(j)
          /\ Snapshot(i)["GFR"] < Snapshot(j)["GFR"]
          /\ Snapshot(i)["BaselineGFR"] = Snapshot(j)["GFR"]
          /\ Snapshot(j)["BaselineGFR"] = Snapshot(j)["GFR"]

\* the positive MELD values of step i and the steps after it
LaterMELD(i) ==
    { Snapshot(j)["MELD"] : j \in { k \in Steps : /\ k >= i
                                                  /\ "MELD" \in DOMAIN Snapshot(k)
                                                  /\ Snapshot(k)["MELD"] > 0 } }

SmallestOf(S) == CHOOSE x \in S : \A y \in S : x <= y

\* C9: once the record is compiled, the BaselineMELD of every step is the
\* smallest positive MELD of that step and the later steps (no baseline when
\* there is none), and so it never decreases from a step to a later step
C9_BaselineMELDIsSmallestLater ==
    Compiled =>
        /\ \A i \in Steps :
              "BaselineMELD" \in DOMAIN Snapshot(i) =>
                  Snapshot(i)["BaselineMELD"] =
                      (IF LaterMELD(i) = {} THEN -100 ELSE SmallestOf(LaterMELD(i)))
        /\ \A i, j \in Steps :
              (/\ i < j
               /\ "BaselineMELD" \in DOMAIN Snapshot(i)
               /\ "BaselineMELD" \in DOMAIN Snapshot(j))
                  => Snapshot(i)["BaselineMELD"] <= Snapshot(j)["BaselineMELD"]

\* C10: an iteration of the forward pass leaves every step before the one its
\* entry belongs to as it was, snapshot included, and no two steps hold the
\* same dict object
C10_EarlierSnapshotsUnchanged ==
    [][ (tlPc = "forward" /\ tlPc' = "forward") =>
            /\ \A i \in Steps :
                  i < Len(CompiledTimeline') =>
                      /\ CompiledTimeline'[i] = CompiledTimeline[i]
                      /\ dicts'[CompiledTimeline'[i].data] = Snapshot(i)
            /\ \A i, j \in 1..Len(CompiledTimeline') :
                  i # j => CompiledTimeline'[i].data # CompiledTimeline'[j].data ]_vars

\* the forward pass has appended a second step and written its own Cr into it
C10_Witness ==
    /\ tlPc = "forward"
    /\ Len(CompiledTimeline) >= 2
    /\ "Cr" \in DOMAIN Snapshot(1)
    /\ Snapshot(1)["Cr"] = 100
    /\ Snapshot(2)["Cr"] = 150


(***************************************************************************)
(* Properties of the sample extractor                                      *)
(***************************************************************************)
\* the steps, counted from 0, that wrote the cells of the returned tensors
EmittedSteps(r) ==
    { r.inputTensor[row][col].step :
          row \in DOMAIN r.inputTensor, col \in 1..Len(fetchArgs.inputValueNameList) }
        \cup { r.resultTensor[row].step : row \in DOMAIN r.resultTensor }

\* the steps, counted from 1, whose snapshot holds the value
StepsThatCarry(valueName) == { i \in Steps : valueName \in DOMAIN Snapshot(i) }

LatestOf(S) == CHOOSE x \in S : \A y \in S : x >= y

Fetched == tlPc = "fetched"

TargetInfo == g_LabValueInfo[fetchArgs.resultValueName.stem]

\* the record of the scenario: a step on day 100 with Cr = 1.0 and a step on
\* day 110 with Cr = 1.5
TwoStepsTenDaysApart ==
    /\ Compiled
    /\ Len(CompiledTimeline) = 2
    /\ CompiledTimeline[1].TimeDays = 100
    /\ CompiledTimeline[2].TimeDays = 110
    /\ "Cr" \in DOMAIN Snapshot(1)
    /\ Snapshot(1)["Cr"] = 100
    /\ Snapshot(2)["Cr"] = 150

\* the descriptor of Future_AKIResolution with 5 days of forward knowledge
FiveDaysAhead == [g_LabValueInfo["Future_AKIResolution"] EXCEPT !.numFutureDaysNeeded = 5]

SamplesFiveDaysAhead ==
    GetDataWithLabInfo(<<VarName("Cr", <<>>)>>, FiveDaysAhead,
                       VarName("Future_AKIResolution", <<>>), <<>>, 0)

\* C4: when the target's descriptor names a future value and N days, every
\* returned sample was written by a step whose day is at least N days before
\* the day of the latest step of the timeline that holds the future value; on
\* the record with steps on day 100 and day 110 and N = 5 the one sample
\* returned is the one of day 100
C4_LookAheadSafety ==
    /\ (Fetched /\ TargetInfo.FuturePredictedValue # "") =>
          \A s \in EmittedSteps(fetchResult[1]) :
              /\ s >= 0
              /\ StepsThatCarry(TargetInfo.FuturePredictedValue) # {}
              /\ TimelineEntry(s).TimeDays + TargetInfo.numFutureDaysNeeded
                    <= CompiledTimeline[
                           LatestOf(StepsThatCarry(TargetInfo.FuturePredictedValue))].TimeDays
    /\ TwoStepsTenDaysApart =>
          /\ SamplesFiveDaysAhead.numReturnedDataSets = 1
          /\ SamplesFiveDaysAhead.resultTensor[1].step = 0
          /\ SamplesFiveDaysAhead.inputTensor[1][1].step = 0

\* Future_AKIResolution needs 60 days: of a record whose last step could give
\* a sample, only earlier steps have
C4_Witness ==
    /\ Fetched
    /\ fetchArgs.resultValueName.stem = "Future_AKIResolution"
    /\ fetchResult[1].numReturnedDataSets >= 1
    /\ Len(CompiledTimeline) >= 2
    /\ "Cr" \in DOMAIN Snapshot(Len(CompiledTimeline))
    /\ "Future_AKIResolution" \in DOMAIN Snapshot(Len(CompiledTimeline))
    /\ (Len(CompiledTimeline) - 1) \notin EmittedSteps(fetchResult[1])

AdmissionFlags == {"DiedInpt", "DiedIn12Mos", "ReadmitIn30Days", "DiagMyeloma"}

AdmissionNodeKinds ==
    { Node("e", "Admit", "", <<>>, <<0, 0, 0>>),
      Node("e", "Discharge", "", <<>>, <<0, 0, 0>>),
      Node("d", "L", "", <<<<"DiedInpt", 1>>, <<"DiedIn12Mos", 1>>,
                           <<"ReadmitIn30Days", 1>>, <<"DiagMyeloma", 1>>>>, <<0, 0, 0>>),
      Node("d", "L", "", <<<<"Cr", 100>>>>, <<0, 0, 0>>) }

AdmissionTimeStamps == { <<100, 8, 0>>, <<110, 8, 0>>, <<110, 12, 0>> }

AdmissionNodeLists ==
    { nodes \in UNION { [1..n -> { [k EXCEPT !.T = t] : k \in AdmissionNodeKinds,
                                                         t \in AdmissionTimeStamps }] :
                           n \in 1..MaxEntries } :
        \A i \in 1..(Len(nodes) - 1) : nodes[i].T[1] <= nodes[i + 1].T[1] }

CompileInit == TimelineStart(AdmissionNodeLists)

CompileNext ==
    \/ ForwardNode
    \/ StartReversePass
    \/ ReverseNode
    \/ FinishCompile

SpecCompile == CompileInit /\ [][CompileNext]_vars

\* the entries the forward pass has processed
Processed ==
    IF tlPc = "forward" THEN 1..(currentNode - 1) ELSE DOMAIN currentPatientNode

IsEvent(i, class) ==
    currentPatientNode[i].nodeType = "e" /\ currentPatientNode[i].C = class

\* an entry that writes InHospital or a per-admission flag
SetsAdmissionState(i) ==
    \/ IsEvent(i, "Admit")
    \/ /\ currentPatientNode[i].nodeType = "d"
       /\ \E a \in DOMAIN currentPatientNode[i].text :
              currentPatientNode[i].text[a][1] \in AdmissionFlags \cup {"InHospital"}

\* the snapshot of the step an entry was processed into
SnapshotOfEntry(i) == Snapshot(currentPatientNode[i].xID + 1)

\* C11: once the forward pass has processed a Discharge event that follows an
\* Admit event, the snapshot of the step of the discharge has InHospital = 0
\* and DiedInpt, DiedIn12Mos, ReadmitIn30Days and DiagMyeloma all 0, from then
\* on and in the compiled timeline, as long as no later entry of the same step
\* writes them again
C11_DischargeResetsFlags ==
    \A i \in Processed :
        (/\ IsEvent(i, "Discharge")
         /\ \E j \in 1..(i - 1) : IsEvent(j, "Admit")
         /\ ~\E k \in Processed : /\ k > i
                                   /\ currentPatientNode[k].xID = currentPatientNode[i].xID
                                   /\ SetsAdmissionState(k))
            => /\ SnapshotOfEntry(i)["InHospital"] = 0
               /\ \A f \in AdmissionFlags : SnapshotOfEntry(i)[f] = 0

\* an admission whose flags were all set, then the discharge in a step of its own
C11_Witness ==
    /\ Compiled
    /\ Len(currentPatientNode) = 3
    /\ IsEvent(1, "Admit")
    /\ IsEvent(3, "Discharge")
    /\ currentPatientNode[2].xID = 0
    /\ currentPatientNode[3].xID = 1
    /\ Snapshot(1)["InHospital"] = 1
    /\ \A f \in AdmissionFlags : Snapshot(1)[f] = 1
    /\ Snapshot(2)["InHospital"] = 0
    /\ \A f \in AdmissionFlags : Snapshot(2)[f] = 0


(***************************************************************************)
(* Calls with required properties: a record of potassium and creatinine    *)
(* measurements and Admit events is compiled, then read by one             *)
(* GetDataFromCurrentWindow call that may pass required properties.        *)
(***************************************************************************)
FilterNodeKinds ==
    { Node("d", "L", "", <<<<"K", 480>>, <<"Cr", 100>>>>, <<0, 0, 0>>),
      Node("d", "L", "", <<<<"K", 520>>, <<"Cr", 150>>>>, <<0, 0, 0>>),
      Node("e", "Admit", "", <<>>, <<0, 0, 0>>) }

FilterTimeStamps == { <<100, 8, 0>>, <<100, 12, 0>>, <<110, 8, 0>> }

FilterNodeLists ==
    { nodes \in UNION { [1..n -> { [k EXCEPT !.T = t] : k \in FilterNodeKinds,
                                                         t \in FilterTimeStamps }] :
                           n \in 1..MaxEntries } :
        \A i \in 1..(Len(nodes) - 1) : nodes[i].T[1] <= nodes[i + 1].T[1] }

FilterInputLists == { <<VarName("K", <<>>)>>,
                      <<VarName("K", <<>>), VarName("Cr", <<1>>)>> }

FilterResultNames == { VarName("Cr", <<>>), VarName("Future_AKI", <<>>) }

FilterPropertyLists ==
    { <<>>,
      <<Property(".GT.", "K", 500)>>,
      <<Property("=", "IsMale", 1), Property(".LT.", "Cr", 120)>> }

FilterInit == TimelineStart(FilterNodeLists)

GetDataFromCurrentWindowWithProperties ==
    Fetch(FilterInputLists, FilterResultNames, FilterPropertyLists, MinIntervals)

FilterNext ==
    \/ ForwardNode
    \/ StartReversePass
    \/ ReverseNode
    \/ FinishCompile
    \/ GetDataFromCurrentWindowWithProperties

SpecFilter == FilterInit /\ [][FilterNext]_vars

\* every requested input resolves at the step (counted from 0)
AllInputsResolve(s) ==
    \A valueIndex \in DOMAIN fetchArgs.inputValueNameList :
        GetNamedValueFromTimeline(fetchArgs.inputValueNameList[valueIndex].stem,
                                  OffsetOf(fetchArgs.inputValueNameList[valueIndex]),
                                  s, TimelineEntry(s).TimeDays)[1]

\* every required property holds at the step (counted from 0)
AllPropertiesHold(s) ==
    CheckIfCurrentTimeMeetsCriteria(fetchArgs.requireProperties, s,
                                    TimelineEntry(s).TimeDays)

\* C12: every value of the returned tensors was written by a step of the
\* window at which every requested input resolves and every required property
\* holds; a step with an unresolved input or a false property has written
\* nothing that is returned
C12_OnlyCompleteStepsContribute ==
    Fetched =>
        \A s \in EmittedSteps(fetchResult[1]) :
            /\ s >= startTimeLineIDInCurrentWindow
            /\ s <= lastTimeLineIDInCurrentWindow
            /\ AllInputsResolve(s)
            /\ AllPropertiesHold(s)

\* the target resolves at the step (counted from 0)
TargetResolves(s) ==
    GetNamedValueFromTimeline(fetchArgs.resultValueName.stem,
                              OffsetOf(fetchArgs.resultValueName),
                              s, TimelineEntry(s).TimeDays)[1]

\* C13: the call returns a count n and two tensors of n rows each (none when
\* n = 0), and every value of input row i and the value of target row i were
\* written by one step, at which every input resolves, every required property
\* holds and the target resolves, whatever minIntervalInHours is
C13_RowsAlignedOnOneStep ==
    Fetched =>
        LET r == fetchResult[1] IN
        /\ Len(r.inputTensor) = r.numReturnedDataSets
        /\ Len(r.resultTensor) = r.numReturnedDataSets
        /\ \A row \in 1..r.numReturnedDataSets :
              LET s == r.resultTensor[row].step IN
              /\ s >= 0
              /\ \A col \in DOMAIN r.inputTensor[row] : r.inputTensor[row][col].step = s
              /\ AllInputsResolve(s)
              /\ AllPropertiesHold(s)
              /\ TargetResolves(s)

-----------------------------------------------------------------------------
\* Windows over the entries of a compiled record.  A node is its index in
\* currentPatientNode, 0 stands for None.  Every call passes empty value lists.

XMLTools_GetAnyPeerNode(nodes, node) ==
    IF node + 1 <= Len(nodes) THEN node + 1 ELSE 0

\* only an event entry can match; a data entry never does
NodeMatchesCriteria(nodes, node, requiredEventClass, requiredEventValueList) ==
    /\ nodes[node].nodeType = "e"
    /\ Lower(nodes[node].C) = requiredEventClass
    /\ Len(requiredEventValueList) > 0 =>
           \E v \in DOMAIN requiredEventValueList :
               requiredEventValueList[v] = Lower(nodes[node].V)

FindNextNodeMatchingCriteriaImpl(nodes, startNode, requiredEventClass, requiredEventValueList) ==
    IF Lower(requiredEventClass) \in {"", "any"} THEN startNode
    ELSE IF startNode = 0 THEN 0
    ELSE LET matching == { n \in startNode..Len(nodes) :
                             NodeMatchesCriteria(nodes, n, Lower(requiredEventClass),
                                                 requiredEventValueList) }
         IN  IF matching = {} THEN 0
             ELSE CHOOSE n \in matching : \A m \in matching : n <= m

WindowResult(found, firstNode, lastNode) ==
    [found |-> found, firstNode |-> firstNode, lastNode |-> lastNode]

SetFirstDataWindowStopsAtStart(nodes, startClass, stopClass) ==
    LET firstNodeInPatient == IF Len(nodes) > 0 THEN 1 ELSE 0
        firstNode == IF Lower(startClass) = "any" \/ startClass = ""
                     THEN firstNodeInPatient
                     ELSE FindNextNodeMatchingCriteriaImpl(nodes, firstNodeInPatient,
                                                           startClass, <<>>)
        lastNode == FindNextNodeMatchingCriteriaImpl(nodes, firstNode, stopClass, <<>>)
    IN  IF firstNode = 0 THEN WindowResult(FALSE, 0, 0)
        ELSE IF lastNode = 0 THEN WindowResult(FALSE, 0, 0)
        ELSE WindowResult(TRUE, firstNode, lastNode)

\* the nodes SetFirstDataWindow finds and the value it returns
SetFirstDataWindowImpl(nodes, startClass, stopClass) ==
    LET firstNodeInPatient == IF Len(nodes) > 0 THEN 1 ELSE 0
        firstNode == IF Lower(startClass) = "any" \/ startClass = ""
                     THEN firstNodeInPatient
                     ELSE FindNextNodeMatchingCriteriaImpl(nodes, firstNodeInPatient,
                                                           startClass, <<>>)
        lastNode == IF Lower(stopClass) = "any" \/ stopClass = ""
                    THEN Len(nodes)
                    ELSE FindNextNodeMatchingCriteriaImpl(nodes, firstNode, stopClass, <<>>)
    IN  IF firstNode = 0 THEN WindowResult(FALSE, 0, 0)
        ELSE IF lastNode = 0 THEN WindowResult(FALSE, 0, 0)
        ELSE WindowResult(TRUE, firstNode, lastNode)

SetNextDataWindowFromCurrent(nodes, startClass, stopClass, startNode, lastNode) ==
    LET firstNode == FindNextNodeMatchingCriteriaImpl(nodes, startNode, startClass, <<>>)
        newLastNode == FindNextNodeMatchingCriteriaImpl(nodes, lastNode, stopClass, <<>>)
    IN  IF Lower(stopClass) = "any" \/ stopClass = "" THEN WindowResult(FALSE, 0, 0)
        ELSE IF firstNode = 0 THEN WindowResult(FALSE, 0, 0)
        ELSE IF newLastNode = 0 THEN WindowResult(FALSE, 0, 0)
        ELSE WindowResult(TRUE, firstNode, newLastNode)

\* the nodes SetNextDataWindow finds and the value it returns
SetNextDataWindowImpl(nodes, startClass, stopClass, startNode, lastNode) ==
    LET nextPossibleFirstNode == XMLTools_GetAnyPeerNode(nodes, startNode)
        firstNode == FindNextNodeMatchingCriteriaImpl(nodes, nextPossibleFirstNode,
                                                      startClass, <<>>)
        nextPossibleLastNode == XMLTools_GetAnyPeerNode(nodes, lastNode)
        newLastNode == FindNextNodeMatchingCriteriaImpl(nodes, nextPossibleLastNode,
                                                        stopClass, <<>>)
    IN  IF Lower(stopClass) = "any" \/ stopClass = "" THEN WindowResult(FALSE, 0, 0)
        ELSE IF firstNode = 0 THEN WindowResult(FALSE, 0, 0)
        ELSE IF newLastNode = 0 THEN WindowResult(FALSE, 0, 0)
        ELSE WindowResult(TRUE, firstNode, newLastNode)

\* SetWindowBoundariesImpl when a window was found, nothing otherwise
SetWindowBoundaries(w) ==
    IF w.found
    THEN /\ startNodeInCurrentWindow' = w.firstNode
         /\ lastNodeInCurrentWindow' = w.lastNode
         /\ startTimeLineIDInCurrentWindow' = currentPatientNode[w.firstNode].xID
         /\ lastTimeLineIDInCurrentWindow' = currentPatientNode[w.lastNode].xID
    ELSE UNCHANGED <<startNodeInCurrentWindow, lastNodeInCurrentWindow,
                     startTimeLineIDInCurrentWindow, lastTimeLineIDInCurrentWindow>>

WindowUnchanged ==
    UNCHANGED <<tlPc, CurrentIsMale, CurrentWtInKg, currentPatientNode, CompiledTimeline,
                dicts, LatestLabsFromCurrentOrEarlierTimes, TimesOfFutureEvents,
                latestTimeLineEntryTime, BaselineGFR, BaselineCr, BaselineMELD,
                DateOfLatestCKD5, DailyMeds, NewMedsForCurrentDay, NewMedHoursForCurrentDay, CurrentAdmitDay,
                CurrentLengthOfStay, currentNode, fetchArgs, fetchResult,
                catVars, jobVars, scanVars, runVars>>

WindowEventClasses == {"Any", "", "Admit", "discharge"}

SetFirstDataWindow ==
    /\ tlPc = "ready"
    /\ \E startClass \in WindowEventClasses, stopClass \in WindowEventClasses :
        LET w == SetFirstDataWindowImpl(currentPatientNode, startClass, stopClass)
        IN  /\ WindowStartEventClass' = startClass
            /\ WindowStopEventClass' = stopClass
            /\ SetWindowBoundaries(w)
            /\ windowCall' = "first"
            /\ windowFound' = w.found
    /\ WindowUnchanged

SetNextDataWindow ==
    /\ tlPc = "ready"
    /\ LET w == SetNextDataWindowImpl(currentPatientNode, WindowStartEventClass,
                                      WindowStopEventClass, startNodeInCurrentWindow,
                                      lastNodeInCurrentWindow)
       IN  /\ SetWindowBoundaries(w)
           /\ windowCall' = "next"
           /\ windowFound' = w.found
    /\ UNCHANGED <<WindowStartEventClass, WindowStopEventClass>>
    /\ WindowUnchanged

WindowNodeKinds ==
    { Node("e", "Admit", "", <<>>, <<0, 0, 0>>),
      Node("e", "Discharge", "", <<>>, <<0, 0, 0>>),
      Node("d", "L", "", <<<<"Cr", 100>>>>, <<0, 0, 0>>) }

WindowTimeStamps == { <<100, 8, 0>>, <<110, 8, 0>> }

WindowNodeLists ==
    { nodes \in UNION { [1..n -> { [k EXCEPT !.T = t] : k \in WindowNodeKinds,
                                                         t \in WindowTimeStamps }] :
                           n \in 1..MaxEntries } :
        \A i \in 1..(Len(nodes) - 1) : nodes[i].T[1] <= nodes[i + 1].T[1] }

WindowInit == TimelineStart(WindowNodeLists)

WindowNext ==
    \/ ForwardNode
    \/ StartReversePass
    \/ ReverseNode
    \/ FinishCompile
    \/ SetFirstDataWindow
    \/ SetNextDataWindow

SpecWindow == WindowInit /\ [][WindowNext]_vars

StopIsAny == Lower(WindowStopEventClass) = "any" \/ WindowStopEventClass = ""

\* the entries the start predicate of the current call sequence matches
StartMatches ==
    IF Lower(WindowStartEventClass) = "any" \/ WindowStartEventClass = ""
    THEN DOMAIN currentPatientNode
    ELSE { n \in DOMAIN currentPatientNode :
             /\ currentPatientNode[n].nodeType = "e"
             /\ Lower(currentPatientNode[n].C) = Lower(WindowStartEventClass) }

\* C14 as stated: with the stop predicate "any", SetFirstDataWindow produces a
\* window that runs to the last entry of the record, and every following
\* SetNextDataWindow returns false.
C14_StopAnyAlwaysYieldsOneWindow ==
    (windowCall # "none" /\ StopIsAny) =>
        /\ windowCall = "first" =>
               windowFound /\ lastNodeInCurrentWindow = Len(currentPatientNode)
        /\ windowCall = "next" => ~windowFound

\* C14, amended: with the stop predicate "any", SetFirstDataWindow finds a
\* window exactly when an entry matches the start predicate; that window runs
\* from the first such entry to the last entry of the record; every following
\* SetNextDataWindow returns false and leaves the window as it is.
C14_StopAnyYieldsAtMostOneWindow ==
    [][(windowCall' # "none" /\ Lower(WindowStopEventClass') \in {"", "any"}) =>
          /\ windowCall' = "first" =>
                /\ windowFound' <=> StartMatches' # {}
                /\ windowFound' =>
                      /\ startNodeInCurrentWindow' \in StartMatches'
                      /\ \A n \in StartMatches' : startNodeInCurrentWindow' <= n
                      /\ lastNodeInCurrentWindow' = Len(currentPatientNode')
          /\ windowCall' = "next" =>
                /\ ~windowFound'
                /\ UNCHANGED <<startNodeInCurrentWindow, lastNodeInCurrentWindow,
                               startTimeLineIDInCurrentWindow,
                               lastTimeLineIDInCurrentWindow>>]_vars

\* a window from a later entry to the last entry of a record of three entries
C14_Witness ==
    /\ windowCall = "first"
    /\ StopIsAny
    /\ windowFound
    /\ Len(currentPatientNode) = 3
    /\ startNodeInCurrentWindow = 2
    /\ lastNodeInCurrentWindow = 3

\* C15: whenever SetNextDataWindow returns true, the pair (start entry, stop
\* entry) of the new window differs from the pair of the window that was
\* current before the call.
C15_NextWindowDiffers ==
    [][(SetNextDataWindow /\ windowFound') =>
          <<startNodeInCurrentWindow, lastNodeInCurrentWindow>>' #
              <<startNodeInCurrentWindow, lastNodeInCurrentWindow>>]_vars

\* a second window that overlaps the first: it starts inside it
C15_Witness ==
    /\ windowCall = "next"
    /\ windowFound
    /\ startNodeInCurrentWindow = 2
    /\ lastNodeInCurrentWindow = 3
    /\ Lower(WindowStartEventClass) = "any"
    /\ Lower(WindowStopEventClass) = "discharge"
    /\ IsEvent(2, "Discharge")

-----------------------------------------------------------------------------
\* Requests that name a variable the registry does not hold.

UnknownInputLists ==
    { <<VarName("K", <<>>)>>,
      <<VarName("Nope", <<>>)>>,
      <<VarName("K", <<>>), VarName("Nope", <<1>>)>> }

UnknownResultNames == { VarName("Cr", <<>>), VarName("Nope", <<>>) }

GetDataFromCurrentWindowWithUnknownNames ==
    Fetch(UnknownInputLists, UnknownResultNames, {<<>>}, {0})

UnknownNext ==
    \/ ForwardNode
    \/ StartReversePass
    \/ ReverseNode
    \/ FinishCompile
    \/ GetDataFromCurrentWindowWithUnknownNames

SpecUnknown == FilterInit /\ [][UnknownNext]_vars

\* the requested names, target and inputs, that the registry does not hold
RequestedUnknown ==
    { n \in {fetchArgs.resultValueName.stem} \cup
            { fetchArgs.inputValueNameList[i].stem :
                  i \in DOMAIN fetchArgs.inputValueNameList } :
        n \notin DOMAIN g_LabValueInfo }

\* C16: when a requested variable name, target or input, is absent from the
\* registry, the call ends without an exception and reports a failure that
\* names the variable.
C16_UnknownVariableIsNamedFailure ==
    (tlPc = "fetched" /\ RequestedUnknown # {}) =>
        /\ fetchResult[1].raised = ""
        /\ RequestedUnknown \subseteq fetchResult[1].printed

-----------------------------------------------------------------------------
\* SpecDamaged: the scan of one partition [0, FileSize) over files in which a
\* record may hold a line that is not well-formed.

MaxDamagedRecords == 4

DamagedPatientLines(kind) ==
    <<Line("other", 0), Line("open", 0), Line(kind, 0), Line("close", 0)>>

RECURSIVE DamagedPatientListLines(_)
DamagedPatientListLines(kinds) ==
    IF kinds = <<>> THEN <<>>
    ELSE DamagedPatientLines(Head(kinds)) \o DamagedPatientListLines(Tail(kinds))

DamagedTDFFiles ==
    { AtOffsets(HeaderLines(h) \o DamagedPatientListLines(kinds) \o FooterLines, 0) :
        h \in 1..MaxHeadLines,
        kinds \in UNION { [1..n -> {"body", "damaged"}] : n \in 0..MaxDamagedRecords } }

DamagedInit ==
    /\ CatIdle
    /\ TimelineIdle
    /\ JobIdle
    /\ file \in DamagedTDFFiles
    /\ partitionSize = 0
    /\ currentPartitionStart = 0
    /\ currentPartitionStop = 0
    /\ filePos = 0
    /\ fFoundPatient = FALSE
    /\ fEOF = FALSE
    /\ claimed = <<>>
    /\ wholeClaimed = <<>>
    /\ scanPc = "wholeFirst"
    /\ lastRead = <<>>

DamagedNext ==
    \/ WholeFirst
    \/ WholeNext
    \/ WholeDone

SpecDamaged == DamagedInit /\ [][DamagedNext]_vars

\* the open lines of the records that are well-formed, in file order
RECURSIVE WellFormedRecords(_)
WellFormedRecords(i) ==
    IF i > Len(file) THEN <<>>
    ELSE IF file[i].kind = "open" /\ file[i + 1].kind = "body"
    THEN <<i>> \o WellFormedRecords(i + 1)
    ELSE WellFormedRecords(i + 1)

\* C17: when the block of a record cannot be parsed as well-formed text, that
\* record is skipped and the scan goes on: the scan is never aborted, and it
\* ends having returned every well-formed record of the file.
C17_DamagedRecordIsSkipped ==
    /\ scanPc # "exit"
    /\ scanPc = "done" => wholeClaimed = WellFormedRecords(1)

-----------------------------------------------------------------------------
\* SpecStamp: records in which an entry may carry a time stamp that is empty
\* or lacks a field.

StampNodeKinds ==
    { Node("d", "L", "", <<<<"Cr", 100>>>>, <<0, 0, 0>>),
      Node("e", "Admit", "", <<>>, <<0, 0, 0>>) }

StampTimeCodes == { <<100, 8, 0>>, <<110, 8, 0>>, <<110, 12, 0>>, <<>>, <<110, 8>> }

WellFormedStamp(node) == TDF_ParseTimeStamp(node.T) = "ok"

\* the well-formed entries are in chronological order
StampNodeLists ==
    { nodes \in UNION { [1..n -> { [k EXCEPT !.T = t] : k \in StampNodeKinds,
                                                         t \in StampTimeCodes }] :
                           n \in 1..MaxEntries } :
        \A i, j \in DOMAIN nodes :
            (i < j /\ WellFormedStamp(nodes[i]) /\ WellFormedStamp(nodes[j]))
                => nodes[i].T[1] <= nodes[j].T[1] }

StampInit == TimelineStart(StampNodeLists)

StampNext ==
    \/ ForwardNode
    \/ StartReversePass
    \/ ReverseNode
    \/ FinishCompile

SpecStamp == StampInit /\ [][StampNext]_vars

\* C18: when the time stamp of one entry does not parse, only that entry is
\* skipped: the compilation of the record is not ended by it, and the compiled
\* timeline holds every entry whose time stamp is well-formed.
C18_BadTimeStampSkipsEntry ==
    /\ tlPc \notin {"exit", "IndexError"}
    /\ Compiled => \A i \in DOMAIN currentPatientNode :
                       WellFormedStamp(currentPatientNode[i])
                           => currentPatientNode[i].xID >= 0

-----------------------------------------------------------------------------
\* SpecRerun: after a record is compiled, either the reverse pass (3360-3416)
\* or the whole of CompilePatientTimelineImpl (3144-3421) is run once more on
\* the same record, with the state the first run left in the reader.

FutureNames ==
    {"Future_AKI", "Future_AKIResolution"} \cup DOMAIN FutureOfCKD
        \cup DOMAIN FutureOfMELDAndEvents

\* the future-event categories of every snapshot of the timeline
AllFutures ==
    [i \in DOMAIN CompiledTimeline |->
        [k \in FutureNames \cap DOMAIN Snapshot(i) |-> Snapshot(i)[k]]]

KeptTimesOfFutureEvents(times) == times

\* self.TimesOfFutureEvents = {} (3154)
FreshTimesOfFutureEvents(times) == EmptyDict

\* lines 3360-3368 entered again: only CurrentLengthOfStay and two of the dates
\* are set; the other dates and the baselines are those of the first run
ReversePassAgain ==
    /\ tlPc = "ready"
    /\ rerun = "none"
    /\ rerun' = "reverse"
    /\ firstRunFutures' = <<AllFutures>>
    /\ TimesOfFutureEvents' = Put(Put(TimesOfFutureEvents, "NextAKIDate", -1),
                                  "NextBaselineCrDate", -1)
    /\ CurrentLengthOfStay' = -1
    /\ currentNode' = Len(currentPatientNode)
    /\ tlPc' = "reverse"
    /\ UNCHANGED <<CurrentIsMale, CurrentWtInKg, currentPatientNode, CompiledTimeline,
                   dicts, LatestLabsFromCurrentOrEarlierTimes, latestTimeLineEntryTime,
                   BaselineGFR, BaselineCr, BaselineMELD, DateOfLatestCKD5, DailyMeds,
                   NewMedsForCurrentDay, NewMedHoursForCurrentDay, CurrentAdmitDay, startTimeLineIDInCurrentWindow,
                   lastTimeLineIDInCurrentWindow, fetchArgs, fetchResult>>
    /\ UNCHANGED <<catVars, jobVars, scanVars, winVars>>

\* CompilePatientTimelineImpl entered again (3144-3202) on the same record,
\* whose entries still carry the xID and AdmitDate attributes of the first run
CompileAgain ==
    /\ tlPc = "ready"
    /\ rerun = "none"
    /\ rerun' = "compile"
    /\ firstRunFutures' = <<AllFutures>>
    /\ CompiledTimeline' = <<>>
    /\ dicts' = << InitialLabs(CurrentIsMale, CurrentWtInKg) >>
    /\ LatestLabsFromCurrentOrEarlierTimes' = 1
    /\ TimesOfFutureEvents' = FreshTimesOfFutureEvents(TimesOfFutureEvents)
    /\ latestTimeLineEntryTime' = <<-1, -1, -1>>
    /\ BaselineGFR' = -100
    /\ BaselineCr' = -100
    /\ BaselineMELD' = -100
    /\ DateOfLatestCKD5' = -1
    /\ DailyMeds' = InitialDailyMeds
    /\ NewMedsForCurrentDay' = EmptyDict
    /\ NewMedHoursForCurrentDay' = EmptyDict
    /\ CurrentAdmitDay' = -1
    /\ currentNode' = 1
    /\ tlPc' = "forward"
    /\ UNCHANGED <<CurrentIsMale, CurrentWtInKg, currentPatientNode, CurrentLengthOfStay,
                   startTimeLineIDInCurrentWindow, lastTimeLineIDInCurrentWindow,
                   fetchArgs, fetchResult>>
    /\ UNCHANGED <<catVars, jobVars, scanVars, winVars>>

RerunInit == TimelineStart(WindowNodeLists)

RerunNext ==
    \/ ForwardNode
    \/ StartReversePass
    \/ ReverseNode
    \/ FinishCompile
    \/ ReversePassAgain
    \/ CompileAgain

SpecRerun == RerunInit /\ [][RerunNext]_vars

-----------------------------------------------------------------------------
\* SpecRelation: calls with one required property, over the six relations and a
\* variable of each data type of the registry: K (float), MELD (integer),
\* IsMale (boolean) and Future_AKI (future-event category).

RelationNodeKinds ==
    { Node("d", "L", "", <<<<"K", 480>>, <<"Cr", 100>>>>, <<0, 0, 0>>),
      Node("d", "L", "", <<<<"K", 520>>, <<"Cr", 150>>>>, <<0, 0, 0>>),
      Node("d", "L", "", <<<<"Tbili", 2000>>, <<"INR", 300>>>>, <<0, 0, 0>>) }

RelationNodeLists ==
    { nodes \in UNION { [1..n -> { [k EXCEPT !.T = t] : k \in RelationNodeKinds,
                                                         t \in WindowTimeStamps }] :
                           n \in 1..MaxEntries } :
        \A i \in 1..(Len(nodes) - 1) : nodes[i].T[1] <= nodes[i + 1].T[1] }

\* the value lists "5", "30", "1" and "13", in the units of the variable
RelationOperands ==
    { <<"K", 500>>, <<"MELD", 3000>>, <<"IsMale", 1>>, <<"Future_AKI", 13>> }

RelationPropertyLists ==
    { <<Property(relation, operand[1], operand[2])>> :
          relation \in PropertyRelations, operand \in RelationOperands }

RelationInit == TimelineStart(RelationNodeLists)

GetDataFromCurrentWindowWithOneProperty ==
    Fetch({<<VarName("K", <<>>)>>}, {VarName("Cr", <<>>)}, RelationPropertyLists, {0})

RelationNext ==
    \/ ForwardNode
    \/ StartReversePass
    \/ ReverseNode
    \/ FinishCompile
    \/ GetDataFromCurrentWindowWithOneProperty

SpecRelation == RelationInit /\ [][RelationNext]_vars

\* a REL b
StandsInRelation(relation, a, b) ==
    CASE relation = "=" -> a = b
      [] relation = "!=" -> a # b
      [] relation = ".LT." -> a < b
      [] relation = ".LTE." -> a <= b
      [] relation = ".GT." -> a > b
      [] relation = ".GTE." -> a >= b

\* C20: for a filter clause Name REL Value, a step of the window at which the
\* input, the target and Name resolve gives a sample exactly when the value of
\* Name at that step stands in relation REL to Value, for each of the six
\* relations and for K, MELD, IsMale and Future_AKI.
C20_ClauseIsTheRelation ==
    Fetched =>
        LET clause == fetchArgs.requireProperties[1] IN
        \A s \in startTimeLineIDInCurrentWindow..lastTimeLineIDInCurrentWindow :
            (/\ AllInputsResolve(s)
             /\ TargetResolves(s)
             /\ clause.name \in DOMAIN DataOf(s))
                => (s \in EmittedSteps(fetchResult[1])
                        <=> StandsInRelation(clause.relation, DataOf(s)[clause.name],
                                              clause.value))

(***************************************************************************)
(* SpecJob: MLJob.GetFilterProperties (src/mlJob.py 1701-1736).  A string  *)
(* is a sequence of one-character strings.                                 *)
(***************************************************************************)
MaxClauses == 2

\* str.split(separator) for a one-character separator
RECURSIVE SplitOnChar(_, _, _, _, _)
SplitOnChar(str, separator, i, start, parts) ==
    IF i > Len(str) THEN Append(parts, SubSeq(str, start, Len(str)))
    ELSE IF str[i] = separator
         THEN SplitOnChar(str, separator, i + 1, i + 1,
                          Append(parts, SubSeq(str, start, i - 1)))
         ELSE SplitOnChar(str, separator, i + 1, start, parts)

\* The alternatives of the pattern "(.LT.|.LTE.|=|.GTE.|.GT.)" in the order
\* they are written; "ANY" stands for the regular expression's dot.
FilterRelationPattern ==
    << <<"ANY", "L", "T", "ANY">>,
       <<"ANY", "L", "T", "E", "ANY">>,
       <<"=">>,
       <<"ANY", "G", "T", "E", "ANY">>,
       <<"ANY", "G", "T", "ANY">> >>

AlternativeMatchesAt(str, i, alternative) ==
    /\ i + Len(alternative) - 1 <= Len(str)
    /\ \A k \in 1..Len(alternative) :
           alternative[k] = "ANY" \/ str[i + k - 1] = alternative[k]

\* the length of the match of the pattern at position i, 0 when there is none:
\* the first alternative that matches is taken
MatchLengthAt(str, i) ==
    LET matching == {a \in 1..Len(FilterRelationPattern) :
                        AlternativeMatchesAt(str, i, FilterRelationPattern[a])} IN
    IF matching = {} THEN 0
    ELSE Len(FilterRelationPattern[CHOOSE a \in matching : \A b \in matching : a <= b])

\* re.split(pattern, str) with the pattern in one capturing group
RECURSIVE re_split(_, _, _, _)
re_split(str, i, start, parts) ==
    IF i > Len(str) THEN Append(parts, SubSeq(str, start, Len(str)))
    ELSE LET n == MatchLengthAt(str, i) IN
         IF n > 0
         THEN re_split(str, i + n, i + n,
                       parts \o <<SubSeq(str, start, i - 1), SubSeq(str, i, i + n - 1)>>)
         ELSE re_split(str, i + 1, start, parts)

\* str.replace(' ', '')
RemoveSpaces(str) == SelectSeq(str, LAMBDA c : c # " ")

\* str.upper() on the letters the relations are written with
UpperChar(c) ==
    CASE c = "l" -> "L"
      [] c = "t" -> "T"
      [] c = "g" -> "G"
      [] c = "e" -> "E"
      [] OTHER -> c

Upper(str) == [k \in 1..Len(str) |-> UpperChar(str[k])]

NoFilterProperties ==
    [numProperties |-> 0, propertyRelationList |-> <<>>, propertyNameList |-> <<>>,
     propertyValueList |-> <<>>]

RECURSIVE GetFilterPropertiesLoop(_, _, _)
GetFilterPropertiesLoop(propList, k, result) ==
    IF k > Len(propList) THEN result
    ELSE LET namePairParts == re_split(propList[k], 1, 1, <<>>) IN
         GetFilterPropertiesLoop(propList, k + 1,
            IF Len(namePairParts) = 3
            THEN [numProperties |-> result.numProperties + 1,
                  propertyNameList |->
                      Append(result.propertyNameList, RemoveSpaces(namePairParts[1])),
                  propertyRelationList |->
                      Append(result.propertyRelationList,
                             Upper(RemoveSpaces(namePairParts[2]))),
                  propertyValueList |->
                      Append(result.propertyValueList, RemoveSpaces(namePairParts[3]))]
            ELSE result)

GetFilterPropertiesImpl(propertyListStr) ==
    IF propertyListStr = <<>> THEN NoFilterProperties
    ELSE GetFilterPropertiesLoop(SplitOnChar(propertyListStr, ";", 1, 1, <<>>), 1,
                                 NoFilterProperties)

GetFilterProperties ==
    /\ ValueFilter # <<>>
    /\ filterProperties = <<>>
    /\ filterProperties' = <<GetFilterPropertiesImpl(ValueFilter)>>
    /\ UNCHANGED ValueFilter
    /\ UNCHANGED <<catVars, scanVars, tlVars>>

\* The clauses a filter string is written from: a name, one of the six
\* relations and a value.
WrittenNames == {<<"K">>, <<"I", "N", "R">>}

WrittenRelations ==
    {<<"=">>, <<"!", "=">>, <<".", "L", "T", ".">>, <<".", "L", "T", "E", ".">>,
     <<".", "G", "T", ".">>, <<".", "G", "T", "E", ".">>}

WrittenValues == {<<"5">>, <<"1", ".", "5">>}

WrittenClauses ==
    [name : WrittenNames, relation : WrittenRelations, value : WrittenValues]

WrittenClauseLists ==
    UNION {[1..n -> WrittenClauses] : n \in 1..MaxClauses}

ClauseString(clause) == clause.name \o clause.relation \o clause.value

RECURSIVE FilterString(_)
FilterString(clauses) ==
    IF Len(clauses) = 1 THEN ClauseString(clauses[1])
    ELSE ClauseString(clauses[1]) \o <<";">> \o FilterString(Tail(clauses))

JobInit ==
    /\ ValueFilter \in {FilterString(clauses) : clauses \in WrittenClauseLists}
    /\ filterProperties = <<>>
    /\ CatIdle
    /\ ScanIdle
    /\ TimelineIdle

JobNext == GetFilterProperties

SpecJob == JobInit /\ [][JobNext]_vars

\* C21: GetFilterProperties splits the filter string on semicolons and gives,
\* for each clause Name REL Value, exactly the written name, relation and
\* value, for each of the six relations =, !=, .LT., .LTE., .GT. and .GTE.
C21_ClausesParseAsWritten ==
    filterProperties # <<>> =>
        \A clauses \in WrittenClauseLists :
            FilterString(clauses) = ValueFilter =>
                /\ filterProperties[1].numProperties = Len(clauses)
                /\ filterProperties[1].propertyNameList
                       = [k \in 1..Len(clauses) |-> clauses[k].name]
                /\ filterProperties[1].propertyRelationList
                       = [k \in 1..Len(clauses) |-> clauses[k].relation]
                /\ filterProperties[1].propertyValueList
                       = [k \in 1..Len(clauses) |-> clauses[k].value]

-----------------------------------------------------------------------------
\* SpecLabs: records of measurement entries that give K and Cr, with values
\* below, between and above the bounds of the registry, at twice the maximum,
\* and with a text that is no number.
LabValuesOfK == {<<"K", 0>>, <<"K", 100>>, <<"K", 480>>, <<"K", 900>>, <<"K", 1400>>,
                 <<"K", 1500>>, <<"K", -1, "pending">>}

LabValuesOfCr == {<<"Cr", 100>>, <<"Cr", 1600>>, <<"Cr", -1, "pending">>}

LabNodeKinds ==
    { Node("d", "L", "", <<k, cr>>, <<0, 0, 0>>) : k \in LabValuesOfK, cr \in LabValuesOfCr }

LabNodeLists ==
    { nodes \in UNION { [1..n -> { [k EXCEPT !.T = t] : k \in LabNodeKinds,
                                                         t \in WindowTimeStamps }] :
                           n \in 1..2 } :
        \A i \in 1..(Len(nodes) - 1) : nodes[i].T[1] <= nodes[i + 1].T[1] }

LabsInit == TimelineStart(LabNodeLists)

LabsNext ==
    \/ ForwardNode
    \/ StartReversePass
    \/ ReverseNode
    \/ FinishCompile

SpecLabs == LabsInit /\ [][LabsNext]_vars

\* the value of a name=value pair is a number
IsNumeric(assignment) == Len(assignment) = 2

Clipped(value, labInfo) ==
    IF value < labInfo.minVal THEN labInfo.minVal
    ELSE IF value > labInfo.maxVal THEN labInfo.maxVal
    ELSE value

\* the forward pass takes a measurement-set entry
CompilesMeasurementEntry ==
    /\ ForwardNode
    /\ currentPatientNode[currentNode].nodeType = "d"
    /\ currentPatientNode[currentNode].C \in {"L", "V"}

\* C22: for each name=value pair of a measurement-set entry whose name is in
\* the registry with bounds [min, max], a value that is no number or is more
\* than 2 x max leaves the field of the snapshot as it was, and every other
\* value from 0 up to and including 2 x max is stored clipped into [min, max],
\* whatever the other pairs of the entry are.
C22_FieldStoredOrDiscardedAlone ==
    [][CompilesMeasurementEntry =>
          LET before == dicts[LatestLabsFromCurrentOrEarlierTimes]
              after == dicts'[LatestLabsFromCurrentOrEarlierTimes']
              text == currentPatientNode[currentNode].text
          IN  \A k \in DOMAIN text :
                  LET labName == text[k][1]
                      labInfo == g_LabValueInfo[labName]
                  IN  labName \in DOMAIN g_LabValueInfo =>
                          IF IsNumeric(text[k]) /\ text[k][2] >= 0
                                 /\ text[k][2] <= 2 * labInfo.maxVal
                          THEN /\ labName \in DOMAIN after
                               /\ after[labName] = Clipped(text[k][2], labInfo)
                          ELSE IF ~IsNumeric(text[k]) \/ text[k][2] > 2 * labInfo.maxVal
                          THEN /\ (labName \in DOMAIN after) = (labName \in DOMAIN before)
                               /\ labName \in DOMAIN before
                                      => after[labName] = before[labName]
                          ELSE TRUE]_vars

-----------------------------------------------------------------------------
\* SpecDerived: records of measurement entries that hold some of the inputs
\* of GFR, AnionGap and UrineAnionGap.
DerivedNodeKinds ==
    { Node("d", "L", "", <<<<"Na", 14000>>>>, <<0, 0, 0>>),
      Node("d", "L", "", <<<<"Cl", 10000>>, <<"CO2", 2400>>>>, <<0, 0, 0>>),
      Node("d", "L", "", <<<<"UNa", 4000>>, <<"UK", 3000>>, <<"UCl", 5000>>>>, <<0, 0, 0>>),
      Node("d", "L", "", <<<<"UNa", 4000>>, <<"UK", 3000>>>>, <<0, 0, 0>>),
      Node("d", "L", "", <<<<"Cr", 100>>>>, <<0, 0, 0>>),
      Node("d", "L", "", <<<<"Cr", 100>>, <<"UNa", 4000>>, <<"UK", 3000>>,
                           <<"UCl", 5000>>>>, <<0, 0, 0>>) }

DerivedNodeLists ==
    { nodes \in UNION { [1..n -> { [k EXCEPT !.T = t] : k \in DerivedNodeKinds,
                                                         t \in WindowTimeStamps }] :
                           n \in 1..MaxEntries } :
        \A i \in 1..(Len(nodes) - 1) : nodes[i].T[1] <= nodes[i + 1].T[1] }

DerivedInit == TimelineStart(DerivedNodeLists)

DerivedNext ==
    \/ ForwardNode
    \/ StartReversePass
    \/ ReverseNode
    \/ FinishCompile

SpecDerived == DerivedInit /\ [][DerivedNext]_vars

\* the derived values of the entries of DerivedNodeKinds and the inputs of
\* the formula of each
DerivedInputs ==
    [GFR |-> {"AgeInYrs", "Cr"},
     AnionGap |-> {"Na", "Cl", "CO2"},
     UrineAnionGap |-> {"UNa", "UK", "UCl"}]

SameEntry(before, after, name) ==
    /\ (name \in DOMAIN after) = (name \in DOMAIN before)
    /\ name \in DOMAIN before => after[name] = before[name]

\* C23: when a measurement entry is compiled, the compilation does not fail;
\* a derived value some input of which is absent from the snapshot is left as
\* it was, and every derived value whose inputs are all present is computed,
\* whatever inputs of the other derived values are absent - in particular
\* with UNa, UK and UCl present and serum Na absent.
C23_DerivedValueFromOwnInputs ==
    [][CompilesMeasurementEntry =>
          /\ tlPc' = tlPc
          /\ LET before == dicts[LatestLabsFromCurrentOrEarlierTimes]
                 after == dicts'[LatestLabsFromCurrentOrEarlierTimes']
             IN  \A name \in DOMAIN DerivedInputs :
                     IF DerivedInputs[name] \subseteq DOMAIN after
                     THEN name \in DOMAIN after
                     ELSE SameEntry(before, after, name)]_vars

-----------------------------------------------------------------------------
\* SpecFold: the forward pass over records of events, measurements, diagnoses
\* and outcome entries, with the entries of one day in any order of their
\* hours.
FoldNodeKinds ==
    { Node("e", "Admit", "", <<>>, <<0, 0, 0>>),
      Node("d", "L", "", <<<<"Cr", 100>>>>, <<0, 0, 0>>),
      Node("d", "D", "", <<"Gout">>, <<0, 0, 0>>),
      Node("oc", "", "", <<<<"DiedInpt", "T">>>>, <<0, 0, 0>>) }

FoldTimeStamps == { <<100, 8, 0>>, <<100, 8, 30>>, <<100, 12, 0>>, <<110, 8, 0>> }

FoldNodeLists ==
    { nodes \in UNION { [1..n -> { [k EXCEPT !.T = t] : k \in FoldNodeKinds,
                                                         t \in FoldTimeStamps }] :
                           n \in 1..MaxEntries } :
        \A i \in 1..(Len(nodes) - 1) : nodes[i].T[1] <= nodes[i + 1].T[1] }

FoldInit == TimelineStart(FoldNodeLists)

FoldNext ==
    \/ ForwardNode
    \/ StartReversePass

SpecFold == FoldInit /\ [][FoldNext]_vars

\* the entry the forward pass is at is an outcome, a diagnosis or an event
IsOutcomeDiagnosisOrEvent(node) ==
    \/ node.nodeType = "oc"
    \/ node.nodeType = "d" /\ node.C \in {"d", "D"}
    \/ node.nodeType = "e"

\* the entry belongs to the current step by the rule of the claim
BelongsToCurrentStep(node) ==
    /\ CompiledTimeline # <<>>
    /\ \/ latestTimeLineEntryTime = node.T
       \/ /\ IsOutcomeDiagnosisOrEvent(node)
          /\ latestTimeLineEntryTime[1] = node.T[1]
          /\ node.T[2] <= latestTimeLineEntryTime[2]

\* the forward pass has put the entry into the step that was the current one
FoldedIntoCurrentStep ==
    /\ CompiledTimeline' = CompiledTimeline
    /\ currentPatientNode'[currentNode].xID = Len(CompiledTimeline) - 1
    /\ LatestLabsFromCurrentOrEarlierTimes' = LatestLabsFromCurrentOrEarlierTimes

\* the forward pass has appended a step for the entry: its index is the
\* index of the step before plus 1, and its snapshot is a new dict that holds
\* what the snapshot before held
AppendedNewStep ==
    /\ Len(CompiledTimeline') = Len(CompiledTimeline) + 1
    /\ SubSeq(CompiledTimeline', 1, Len(CompiledTimeline)) = CompiledTimeline
    /\ LET step == CompiledTimeline'[Len(CompiledTimeline')] IN
       /\ step.timelinePointID = Len(CompiledTimeline)
       /\ currentPatientNode'[currentNode].xID = step.timelinePointID
       /\ step.data \notin DOMAIN dicts
       /\ \A i \in DOMAIN dicts : dicts'[i] = dicts[i]
       /\ DOMAIN dicts[LatestLabsFromCurrentOrEarlierTimes] \subseteq DOMAIN dicts'[step.data]

\* C24: the forward pass folds an entry into the current step exactly when
\* its time equals the time of that step, or when it is an outcome, diagnosis
\* or event entry of the same day with an hour not after the step's hour;
\* every other entry gets a new step, with the next index and a snapshot
\* that starts as a copy of the one before.
C24_FoldOrAppend ==
    [][(ForwardNode /\ tlPc' = tlPc) =>
          IF BelongsToCurrentStep(currentPatientNode[currentNode])
          THEN FoldedIntoCurrentStep
          ELSE AppendedNewStep]_vars

-----------------------------------------------------------------------------
\* SpecMeds: records of medication orders, one entry for each time stamp, in
\* chronological order.
MaxMedEntries == 3

MedNode(V, D) == [Node("e", "Med", V, <<>>, <<0, 0, 0>>) EXCEPT !.D = D]

MedNodeKinds ==
    { MedNode("Warfarin", <<5>>), MedNode("coumadin", <<2>>), MedNode("Warfarin", <<>>),
      MedNode("mtx", <<10>>), MedNode("tac", <<1>>), MedNode("Vanc", <<1000>>),
      MedNode("csa", <<50>>),
      Node("d", "L", "", <<<<"Cr", 100>>>>, <<0, 0, 0>>) }

MedTimeStamps == { <<100, 8, 0>>, <<100, 20, 0>>, <<101, 8, 0>>, <<102, 8, 0>> }

Earlier(t, u) == t[1] < u[1] \/ (t[1] = u[1] /\ t[2] < u[2])

\* the time stamps of a set, the earliest first
InOrder(stamps) ==
    CHOOSE ts \in [1..Cardinality(stamps) -> stamps] :
        \A i \in 1..(Cardinality(stamps) - 1) : Earlier(ts[i], ts[i + 1])

\* the entries of kinds, the i-th with the i-th time stamp of ts
RECURSIVE Stamped(_, _, _)
Stamped(kinds, ts, i) ==
    IF i > Len(kinds) THEN <<>>
    ELSE <<[kinds[i] EXCEPT !.T = ts[i]]>> \o Stamped(kinds, ts, i + 1)

\* the records of up to MaxMedEntries entries, each later than the one before
MedNodeLists ==
    UNION { { Stamped(kinds, InOrder(stamps), 1) :
                kinds \in [1..Cardinality(stamps) -> MedNodeKinds] } :
            stamps \in { x \in SUBSET MedTimeStamps :
                            Cardinality(x) \in 1..MaxMedEntries } }

MedsInit == TimelineStart(MedNodeLists)

MedsNext ==
    \/ ForwardNode
    \/ StartReversePass
    \/ ReverseNode
    \/ FinishCompile

SpecMeds == MedsInit /\ [][MedsNext]_vars

\* the medications the forward pass tracks, by the name of the dose in a
\* snapshot; the daily totals are the four that each new day starts at 0
TrackedMeds ==
    {"WarfarinDose", "MTXDose", "TacroDoseAM", "TacroDosePM", "VancDose", "VoriDose",
     "TobraDose", "CycDose", "CycDoseAM", "CycDosePM"}

DailyTotals == DOMAIN InitialNewMeds

StandingMeds == TrackedMeds \ DailyTotals

\* what an entry orders: the doses it writes into a table of zeros
OrderOf(node) ==
    IF node.nodeType # "e" THEN [med \in TrackedMeds |-> 0]
    ELSE ProcessMedEvent([med \in TrackedMeds |-> 0], EmptyDict, node, node.T[2]).meds

IsOrderFor(node, med) == OrderOf(node)[med] # 0

DoseAt(i, med) == Lookup(dicts[CompiledTimeline[i].data], med, 0)

DayOf(i) == CompiledTimeline[i].TimeDays

\* the dose of the last order for med on a day before day, 0 without one
LastOrderedDose(med, day) ==
    LET orders == {k \in DOMAIN currentPatientNode :
                      /\ IsOrderFor(currentPatientNode[k], med)
                      /\ currentPatientNode[k].T[1] < day}
    IN  IF orders = {} THEN 0
        ELSE OrderOf(currentPatientNode[CHOOSE k \in orders : \A m \in orders : m <= k])[med]

\* a dose that a step carries after an order of an earlier day is carried by
\* every later step up to the day after the next order for the medication
DoseCarried(meds) ==
    \A med \in meds : \A i, j \in DOMAIN CompiledTimeline :
        (/\ i < j
         /\ \E k \in DOMAIN currentPatientNode :
                /\ IsOrderFor(currentPatientNode[k], med)
                /\ currentPatientNode[k].T[1] < DayOf(i)
         /\ \A k \in DOMAIN currentPatientNode :
                ~(/\ IsOrderFor(currentPatientNode[k], med)
                  /\ DayOf(i) <= currentPatientNode[k].T[1]
                  /\ currentPatientNode[k].T[1] < DayOf(j)))
            => DoseAt(j, med) = DoseAt(i, med)

-----------------------------------------------------------------------------
\* SpecPast: GetDataFromCurrentWindow with the input Cr, which every entry
\* gives, and the target K of some days before, over records whose entries
\* are up to 376 days apart.
PastNodeKinds ==
    { Node("d", "L", "", <<<<"K", 480>>, <<"Cr", 100>>>>, <<0, 0, 0>>),
      Node("d", "L", "", <<<<"K", 520>>, <<"Cr", 150>>>>, <<0, 0, 0>>),
      Node("d", "L", "", <<<<"Cr", 100>>>>, <<0, 0, 0>>) }

PastTimeStamps == { <<100, 8, 0>>, <<110, 8, 0>>, <<475, 8, 0>>, <<476, 8, 0>> }

PastNodeLists ==
    { nodes \in UNION { [1..n -> { [k EXCEPT !.T = t] : k \in PastNodeKinds,
                                                         t \in PastTimeStamps }] :
                           n \in 1..MaxEntries } :
        \A i \in 1..(Len(nodes) - 1) : Earlier(nodes[i].T, nodes[i + 1].T) }

PastOffsets == {-1, -10, -11, -365}

PastInit == TimelineStart(PastNodeLists)

GetDataFromCurrentWindowWithPastTarget ==
    Fetch({<<VarName("Cr", <<>>)>>}, {VarName("K", <<o>>) : o \in PastOffsets}, {<<>>}, {0})

PastNext ==
    \/ ForwardNode
    \/ StartReversePass
    \/ ReverseNode
    \/ FinishCompile
    \/ GetDataFromCurrentWindowWithPastTarget

SpecPast == PastInit /\ [][PastNext]_vars

\* the steps up to step s, of a day up to targetDayNum, that carry the variable
PastCandidates(valueName, s, targetDayNum) ==
    {p \in 0..s : /\ TimelineEntry(p).TimeDays <= targetDayNum
                  /\ valueName \in DOMAIN DataOf(p)}

\* C26: a variable with a negative day offset resolves at a step of day d to
\* the value of the nearest step, that step or an earlier one, that is of a
\* day up to d + offset and carries the variable; it does not resolve when
\* there is no such step or when that step is more than 365 days before
\* d + offset.  No value of a step of a day after d + offset is returned.
C26_PastValueIsNearestWithinAYear ==
    Fetched =>
        LET valueName == fetchArgs.resultValueName.stem
            offset == OffsetOf(fetchArgs.resultValueName)
        IN  \A s \in startTimeLineIDInCurrentWindow..lastTimeLineIDInCurrentWindow :
                LET targetDayNum == TimelineEntry(s).TimeDays + offset
                    candidates == PastCandidates(valueName, s, targetDayNum)
                    nearest == CHOOSE p \in candidates : \A q \in candidates : q <= p
                IN  IF candidates = {}
                    THEN s \notin EmittedSteps(fetchResult[1])
                    ELSE IF targetDayNum - TimelineEntry(nearest).TimeDays
                                > MAX_PREVIOUS_LAB_EXTRA_PREVIOUS
                    THEN s \notin EmittedSteps(fetchResult[1])
                    ELSE \E row \in DOMAIN fetchResult[1].resultTensor :
                             fetchResult[1].resultTensor[row]
                                 = Cell(DataOf(nearest)[valueName], s)

\* SpecOutcome: the compilation of records that hold outcome entries among
\* their measurement entries.
OutcomeNodeKinds ==
    { Node("d", "L", "", <<<<"Cr", 100>>>>, <<0, 0, 0>>),
      Node("oc", "", "", <<<<"DiedInpt", "T">>>>, <<0, 0, 0>>),
      Node("oc", "", "", <<<<"ReadmitIn30Days", "T">>, <<"DiagMyeloma", "T">>>>, <<0, 0, 0>>),
      Node("oc", "", "", <<<<"DiedIn12Mos", "F">>, <<"PreexistingMyeloma", "T">>>>, <<0, 0, 0>>) }

OutcomeNodeLists ==
    { nodes \in UNION { [1..n -> { [k EXCEPT !.T = t] : k \in OutcomeNodeKinds,
                                                         t \in WindowTimeStamps }] :
                           n \in 1..MaxEntries } :
        \A i \in 1..(Len(nodes) - 1) : nodes[i].T[1] <= nodes[i + 1].T[1] }

OutcomeInit == TimelineStart(OutcomeNodeLists)

OutcomeNext ==
    \/ ForwardNode
    \/ StartReversePass
    \/ ReverseNode
    \/ FinishCompile

SpecOutcome == OutcomeInit /\ [][OutcomeNext]_vars

\* the named booleans an outcome entry carries with the value T
FlagsCarried(outcomesNode) ==
    { OutcomeNames[k] : k \in { j \in DOMAIN OutcomeNames :
                                  \E a \in DOMAIN outcomesNode.text :
                                      outcomesNode.text[a] = <<OutcomeNames[j], "T">> } }

\* the forward pass moves past an outcome entry
PassesOutcomeEntry ==
    /\ tlPc = "forward"
    /\ currentNode \in 1..Len(currentPatientNode)
    /\ currentPatientNode[currentNode].nodeType = "oc"
    /\ currentNode' = currentNode + 1

\* C27: when the forward pass has gone past an outcome entry, every named
\* boolean the entry carries with the value T is 1 in the live snapshot.
C27_OutcomeFlagsSetInForwardPass ==
    [][PassesOutcomeEntry =>
           \A flag \in FlagsCarried(currentPatientNode[currentNode]) :
               dicts'[LatestLabsFromCurrentOrEarlierTimes'][flag] = 1]_vars

\* the record holds an event or a measurement entry
HasEventOrMeasurement ==
    \E i \in DOMAIN currentPatientNode : currentPatientNode[i].nodeType \in {"e", "d"}

\* C28: after a record with an event or a measurement entry is parsed, and
\* before a window is set, the window starts at step 0 and ends at the last
\* step of the compiled timeline, whatever entry is first or last.
C28_DefaultWindowCoversSubject ==
    (tlPc = "ready" /\ windowCall = "none" /\ HasEventOrMeasurement) =>
        /\ startTimeLineIDInCurrentWindow = 0
        /\ lastTimeLineIDInCurrentWindow = Len(CompiledTimeline) - 1

\* SpecRange: windows over records of admission and discharge events in
\* every order.
MaxWindowEntries == 4

RangeNodeKinds ==
    { Node("e", "Admit", "", <<>>, <<0, 0, 0>>),
      Node("e", "Discharge", "", <<>>, <<0, 0, 0>>) }

RangeTimeStamps == { <<100, 8, 0>>, <<101, 8, 0>>, <<102, 8, 0>>, <<103, 8, 0>> }

RangeNodeLists ==
    { nodes \in UNION { [1..n -> { [k EXCEPT !.T = t] : k \in RangeNodeKinds,
                                                         t \in RangeTimeStamps }] :
                           n \in 1..MaxWindowEntries } :
        \A i \in 1..(Len(nodes) - 1) : ~Earlier(nodes[i + 1].T, nodes[i].T) }

RangeInit == TimelineStart(RangeNodeLists)

RangeNext ==
    \/ ForwardNode
    \/ StartReversePass
    \/ ReverseNode
    \/ FinishCompile
    \/ SetFirstDataWindow
    \/ SetNextDataWindow

SpecRange == RangeInit /\ [][RangeNext]_vars

\* the indexes of the compiled timeline
TimelineIndexes == 0..(Len(CompiledTimeline) - 1)

\* C29: when SetFirstDataWindow or SetNextDataWindow has returned true, the
\* start step and the last step of the window are indexes of the compiled
\* timeline and the start step is not after the last step.
C29_WindowIsValidRange ==
    (tlPc = "ready" /\ windowCall # "none" /\ windowFound) =>
        /\ startTimeLineIDInCurrentWindow \in TimelineIndexes
        /\ lastTimeLineIDInCurrentWindow \in TimelineIndexes
        /\ startTimeLineIDInCurrentWindow <= lastTimeLineIDInCurrentWindow

\* SpecAny: calls for the targets that stand for an event, on every window of
\* records of events and measurements; one measurement entry names a variable
\* "ANY".
AnyNodeKinds ==
    { Node("e", "Admit", "", <<>>, <<0, 0, 0>>),
      Node("e", "Discharge", "", <<>>, <<0, 0, 0>>),
      Node("d", "L", "", <<<<"Cr", 100>>>>, <<0, 0, 0>>),
      Node("d", "L", "", <<<<"ANY", 100>>, <<"Cr", 150>>>>, <<0, 0, 0>>) }

AnyNodeLists ==
    { nodes \in UNION { [1..n -> { [k EXCEPT !.T = t] : k \in AnyNodeKinds,
                                                         t \in WindowTimeStamps }] :
                           n \in 1..MaxEntries } :
        \A i \in 1..(Len(nodes) - 1) : nodes[i].T[1] <= nodes[i + 1].T[1] }

AnyInit == TimelineStart(AnyNodeLists)

AnyTargets == { VarName(n, <<>>) : n \in {"Future_Admission", "Future_Discharge"} }

GetDataFromCurrentWindowWithAnyTarget ==
    Fetch({<<VarName("Cr", <<>>)>>, <<VarName("IsMale", <<>>)>>}, AnyTargets, {<<>>}, {0})

AnyNext ==
    \/ ForwardNode
    \/ StartReversePass
    \/ ReverseNode
    \/ FinishCompile
    \/ SetFirstDataWindow
    \/ SetNextDataWindow
    \/ GetDataFromCurrentWindowWithAnyTarget

SpecAny == AnyInit /\ [][AnyNext]_vars

====
